---- MODULE Spec2Model ----
(***************************************************************************)
(* Model of the astro-float power-series engine and of its two exemplar    *)
(* drivers, tangent (astro-float-num/src/ops/tan.rs) and cosine            *)
(* (src/ops/cos.rs), with the series dispatcher of                         *)
(* astro-float-num/src/ops/series.rs.                                      *)
(*                                                                         *)
(* Operations of the big-float value type and of the constants cache are   *)
(* external to these files: each is one step whose outcome (a value, or    *)
(* one of the errors of the taxonomy) is chosen nondeterministically.      *)
(***************************************************************************)
EXTENDS Integers, Sequences, FiniteSets, TLC

VARIABLES
    \* ---- tangent driver (BigFloatNumber::tan) ----
    pc,        \* position inside tan
    self,      \* the argument (borrowed immutably by tan)
    p_req,     \* the precision argument as passed by the caller
    rm,        \* the rounding mode argument
    p,         \* round_p(p_req)
    p_wrk,     \* working precision
    p_inc,     \* next precision step
    add_p,     \* additional precision for the proximity to pi
    p_x,       \* precision at which the copy of the argument is materialised
    x,         \* the working copy of the argument
    t,         \* last pi-proximity measure
    ret,       \* result of tan_series in the current iteration
    result,    \* what the call returned
    iter,      \* number of loop iterations started
    fails,     \* number of failed rounding attempts
    cc_uses,   \* number of uses of the constants cache
    last,      \* the last external operation and its outcome
    \* ---- cosine driver (BigFloatNumber::cos) ----
    cos_pc,      \* position inside cos
    cos_self,    \* the argument
    cos_rm,      \* the rounding mode argument
    cos_arg,     \* arg, the trig-reduced argument
    cos_arg1,    \* arg1, the clone consumed by the first cos_series
    cos_ret,     \* ret
    cos_result,  \* what the call returned
    cos_nseries, \* number of cos_series evaluations
    cos_last,    \* the last external operation and its outcome
    \* ---- series evaluator (series_run and its strategies) ----
    ser_pc,       \* position inside series_run
    ser_in,       \* the arguments acc, x_first, x_step, niter of series_run
    ser_gen,      \* polycoeff_gen, the coefficient generator
    ser_loc,      \* the locals of the strategy that is running
    ser_strategy, \* the strategies series_run has dispatched to
    ser_iters,    \* number of loop iterations executed
    ser_result,   \* what series_run returned
    ser_ref,      \* the result of an earlier evaluation of the same series
    \* ---- reduction optimizer (series_cost_optimize) ----
    opt_pc,       \* position inside series_cost_optimize
    opt_in,       \* the arguments p, m, pwr_step, ext and the caller's family
    opt_loc,      \* the locals reduction_num_step, reduction_times, cost1,
                  \* m_eff, niter, cost2
    opt_accepted, \* the configurations accepted so far, oldest first
    opt_result,   \* the triple returned
    \* ---- argument reduction of tan (tan_arg_reduce) ----
    red_pc,       \* position inside tan_arg_reduce
    red_in,       \* self and n
    red_ret,      \* ret
    red_loop,     \* the division loop: its length and the passes made
    red_result,   \* what tan_arg_reduce returned
    \* ---- the series functions of the drivers (cos_series, tan_series) ----
    ts_pc,        \* position inside cos_series / tan_series
    ts_fn,        \* which of the two is running
    ts_self,      \* self
    ts_plan,      \* what series_cost_optimize returned
    ts_val,       \* the value travelling through reduce, series and restore
    ts_left,      \* iterations of the running reduce or restore loop to go
    ts_ops,       \* the operations carried out so far
    ts_result     \* what the function returned

tanVars == <<pc, self, p_req, rm, p, p_wrk, p_inc, add_p, p_x, x, t, ret,
             result, iter, fails, cc_uses, last>>

cosVars == <<cos_pc, cos_self, cos_rm, cos_arg, cos_arg1, cos_ret, cos_result,
             cos_nseries, cos_last>>

serVars == <<ser_pc, ser_in, ser_gen, ser_loc, ser_strategy, ser_iters,
             ser_result, ser_ref>>

optVars == <<opt_pc, opt_in, opt_loc, opt_accepted, opt_result>>

redVars == <<red_pc, red_in, red_ret, red_loop, red_result>>

tsVars == <<ts_pc, ts_fn, ts_self, ts_plan, ts_val, ts_left, ts_ops,
            ts_result>>

vars == <<tanVars, cosVars, serVars, optVars, redVars, tsVars>>

----------------------------------------------------------------------------
\* Program constants that the modelled files import.

WORD_BIT_SIZE == 64

TRIG_EXP_THRES == -64

EXPONENT_MIN == -100000

\* Errors of the taxonomy (tan.rs doc comment, lines 68-72).
Errors == {"ExponentOverflow", "MemoryAllocation", "InvalidArgument"}

RoundingModes == {"None", "ToEven", "Up", "Down"}

----------------------------------------------------------------------------
\* Bounds of the model.

\* Largest precision for which set_precision can find memory.
MaxPrec == 640

\* Largest pi-proximity measure drawn for trig_arg_pi_proximity.
MaxT == 131

----------------------------------------------------------------------------
\* Pure helpers.

Max(a, b) == IF a >= b THEN a ELSE b

\* round_p: precision rounded upwards to the word size.
round_p(n) == ((n + WORD_BIT_SIZE - 1) \div WORD_BIT_SIZE) * WORD_BIT_SIZE

NoVal == [kind |-> "none"]

OkResult(v) == [ok |-> TRUE, err |-> "none", val |-> v]

ErrResult(e) == [ok |-> FALSE, err |-> e, val |-> NoVal]

NoResult == [ok |-> FALSE, err |-> "none", val |-> NoVal]

Op(name, out, e) == [op |-> name, out |-> out, err |-> e]

----------------------------------------------------------------------------
\* Big-float numbers of the series engine.  A number is a record
\*   [s, m, e, p, inexact]
\* of value s * m * 2^(e - p): sign s, a mantissa m of exactly p bits with
\* its top bit set (or m = 0 for zero), exponent e, precision p
\* (mantissa_max_bit_len) and the inexact flag.  Arithmetic takes the target
\* precision and truncates (RoundingMode::None).

RECURSIVE BitLen(_)
BitLen(n) == IF n = 0 THEN 0 ELSE 1 + BitLen(n \div 2)

Abs(n) == IF n < 0 THEN -n ELSE n

Min(a, b) == IF a <= b THEN a ELSE b

\* BigFloatNumber::new(p): a zero of precision p.
FZero(pp) == [s |-> 1, m |-> 0, e |-> 0, p |-> pp, inexact |-> FALSE]

\* The number sg * mm * 2^ee cut to pp bits.
FNorm(sg, mm, ee, pp, ix) ==
    IF mm = 0
      THEN [FZero(pp) EXCEPT !.inexact = ix]
      ELSE LET b == BitLen(mm)
           IN  IF b > pp
                 THEN [s |-> sg, m |-> mm \div 2^(b - pp), e |-> ee + b,
                       p |-> pp,
                       inexact |-> ix \/ (mm % 2^(b - pp) # 0)]
                 ELSE [s |-> sg, m |-> mm * 2^(pp - b), e |-> ee + b,
                       p |-> pp, inexact |-> ix]

\* BigFloatNumber::from_word(n, p)
FromWord(n, pp) == FNorm(1, n, 0, pp, FALSE)

FIsZero(a) == a.m = 0

\* exponent of the unit of the last place of a
FUlpExp(a) == a.e - a.p

\* a.mul(b, p, None)
FMul(a, b, pp) ==
    IF a.m = 0 \/ b.m = 0
      THEN [FZero(pp) EXCEPT !.inexact = a.inexact \/ b.inexact]
      ELSE FNorm(a.s * b.s, a.m * b.m, FUlpExp(a) + FUlpExp(b), pp,
                 a.inexact \/ b.inexact)

\* a.div(b, p, None), b is not zero
FDiv(a, b, pp) ==
    IF a.m = 0
      THEN [FZero(pp) EXCEPT !.inexact = a.inexact \/ b.inexact]
      ELSE LET k == Max(pp + b.p - a.p + 1, 0)
               n == a.m * 2^k
           IN  FNorm(a.s * b.s, n \div b.m, FUlpExp(a) - FUlpExp(b) - k, pp,
                     a.inexact \/ b.inexact \/ (n % b.m # 0))

\* a.add(b, p, None).  An operand that lies wholly below the guard bits of
\* the other one only leaves a sticky unit behind.
FAdd(a, b, pp) ==
    IF a.m = 0 THEN FNorm(b.s, b.m, FUlpExp(b), pp, a.inexact \/ b.inexact)
    ELSE IF b.m = 0 THEN FNorm(a.s, a.m, FUlpExp(a), pp, a.inexact \/ b.inexact)
    ELSE LET hi == IF a.e >= b.e THEN a ELSE b
             lo == IF a.e >= b.e THEN b ELSE a
             guard == pp + 3
             d  == FUlpExp(hi) - FUlpExp(lo)
             ix == a.inexact \/ b.inexact
         IN  IF hi.e - lo.e > Max(hi.p, pp) + 3
               THEN LET sum == hi.m * 2^guard + hi.s * lo.s
                    IN  FNorm(hi.s, sum, FUlpExp(hi) - guard, pp, TRUE)
               ELSE LET ee  == Min(FUlpExp(hi), FUlpExp(lo))
                        sum == hi.s * hi.m * 2^(FUlpExp(hi) - ee)
                               + lo.s * lo.m * 2^(FUlpExp(lo) - ee)
                    IN  FNorm(IF sum < 0 THEN -1 ELSE 1, Abs(sum), ee, pp, ix)

\* set_inexact
FSetInexact(a, ix) == [a EXCEPT !.inexact = ix]

----------------------------------------------------------------------------
\* Values of the tangent driver.  A value carries what the driver reads:
\* zero test, sign, inexact flag, mantissa_max_bit_len (mbl), exponent, and
\* num, which names the number it holds ("x" is the number of the argument).

ArgExps == {-200, 1}

ZeroArgs ==
    [zero : {TRUE}, sign : {1, -1}, inexact : BOOLEAN,
     mbl : {WORD_BIT_SIZE, 2 * WORD_BIT_SIZE}, exp : {0}, sub : {FALSE},
     num : {"0"}]

NormalArgs ==
    [zero : {FALSE}, sign : {1, -1}, inexact : BOOLEAN,
     mbl : {WORD_BIT_SIZE, 2 * WORD_BIT_SIZE}, exp : ArgExps, sub : {FALSE},
     num : {"x"}]

\* Subnormal values are pinned at the minimum exponent.
SubnormalArgs ==
    [zero : {FALSE}, sign : {1, -1}, inexact : BOOLEAN,
     mbl : {WORD_BIT_SIZE, 2 * WORD_BIT_SIZE}, exp : {EXPONENT_MIN},
     sub : {TRUE}, num : {"x"}]

Args == ZeroArgs \cup NormalArgs \cup SubnormalArgs

Precisions == {1, WORD_BIT_SIZE, WORD_BIT_SIZE + 1}

\* Self::new2(p, sign, inexact): a zero of precision p.
New2(pp, s, ie) ==
    [zero |-> TRUE, sign |-> s, inexact |-> ie, mbl |-> pp, exp |-> 0,
     sub |-> FALSE, num |-> "0"]

\* Variant of TanZeroValue that drops the sign of the argument.
TanZeroValue_unsigned(pp, slf) == New2(pp, 1, slf.inexact)

\* tan.rs:77, the value returned for a zero argument.
TanZeroValue(pp, slf) == New2(pp, slf.sign, slf.inexact)

\* Variant of TanSmallExpArg with the sign of the exponent lost.
TanSmallExpArg_abs(e) == (IF e < 0 THEN -e ELSE e) * 2 - 1

\* tan.rs:83, the exponent expression handed to compute_small_exp.
TanSmallExpArg(e) == e * 2 - 1

\* compute_small_exp!: taken when the argument is so small that the function
\* agrees with its first-order approximation at the working precision.
SmallExpTaken(e, pw) == pw + 1 < -e

\* compute_small_exp!: the value it returns, the argument at precision pp.
SmallExpValue(slf, pp) == [slf EXCEPT !.mbl = pp, !.inexact = TRUE]

\* cmp(): numeric comparison of two values.
CmpEqual(a, b) ==
    /\ a.num = b.num
    /\ a.zero = b.zero
    /\ a.zero \/ (a.sign = b.sign /\ a.exp = b.exp)

\* tan.rs:87, the initial additional precision.
InitAddP == 3 - TRIG_EXP_THRES

\* Variant of NextPWrk that assigns the step instead of adding it.
NextPWrk_assign(pw, pi) == pi

\* Variant of NextPWrk that leaves the working precision as it is.
NextPWrk_same(pw, pi) == pw

\* tan.rs:107
NextPWrk(pw, pi) == pw + pi

\* Variant of NextPInc that does not round the step to whole words.
NextPInc_unrounded(pw) == pw \div 5

\* tan.rs:108
NextPInc(pw) == round_p(pw \div 5)

\* Outcomes of trig_arg_pi_proximity.
TSet == {0, InitAddP, 100, MaxT}

\* Exponents of a trig-reduced argument (|x| < pi).
ReducedExps(e) == {r \in {e, 0, 2} : r <= e /\ r <= 2}

----------------------------------------------------------------------------
\* The tangent driver, tan.rs:73-111.

\* The cosine driver is not running.
CosIdle ==
    /\ cos_pc = "idle"
    /\ cos_self = NoVal /\ cos_rm = "None"
    /\ cos_arg = NoVal /\ cos_arg1 = NoVal /\ cos_ret = NoVal
    /\ cos_result = NoResult
    /\ cos_nseries = 0
    /\ cos_last = Op("none", "ok", "none")

\* The series evaluator is not running.
SeriesIdle ==
    /\ ser_pc = "idle"
    /\ ser_in = NoVal /\ ser_gen = NoVal /\ ser_loc = NoVal
    /\ ser_strategy = <<>>
    /\ ser_iters = 0
    /\ ser_result = NoResult
    /\ ser_ref = NoVal

\* series_cost_optimize is not running.
OptIdle ==
    /\ opt_pc = "idle"
    /\ opt_in = NoVal /\ opt_loc = NoVal
    /\ opt_accepted = <<>>
    /\ opt_result = NoVal

\* tan_arg_reduce is not running.
ReduceIdle ==
    /\ red_pc = "idle"
    /\ red_in = NoVal /\ red_ret = NoVal
    /\ red_loop = NoVal
    /\ red_result = NoResult

\* Neither cos_series nor tan_series is running.
TrigSeriesIdle ==
    /\ ts_pc = "idle"
    /\ ts_fn = "none"
    /\ ts_self = NoVal /\ ts_plan = NoVal /\ ts_val = NoVal
    /\ ts_left = 0
    /\ ts_ops = <<>>
    /\ ts_result = NoResult

\* What a step of tan leaves alone.
TanFrame == UNCHANGED <<cosVars, serVars, optVars, redVars, tsVars>>

TanInit ==
    /\ pc = "start"
    /\ self \in Args
    /\ p_req \in Precisions
    /\ rm \in {"None", "ToEven"}
    /\ p = 0 /\ p_wrk = 0 /\ p_inc = 0 /\ add_p = 0 /\ p_x = 0
    /\ x = NoVal /\ t = 0 /\ ret = NoVal
    /\ result = NoResult
    /\ iter = 0 /\ fails = 0 /\ cc_uses = 0
    /\ last = Op("none", "ok", "none")
    /\ CosIdle
    /\ SeriesIdle
    /\ OptIdle
    /\ ReduceIdle
    /\ TrigSeriesIdle

\* Variant of TanFail that swallows the error and retries.
TanFail_retry(op, e) ==
    /\ pc' = "clone"
    /\ result' = result
    /\ last' = Op(op, "err", e)

\* An error returned by operation op: the ? operator returns it to the caller.
TanFail(op, e) ==
    /\ pc' = "done"
    /\ result' = ErrResult(e)
    /\ last' = Op(op, "err", e)

\* tan.rs:74-78: zero argument.
TanZero ==
    /\ pc = "start"
    /\ self.zero
    /\ p' = round_p(p_req)
    /\ \/ /\ pc' = "done"
          /\ result' = OkResult(TanZeroValue(p', self))
          /\ last' = Op("new2", "ok", "none")
       \/ \E e \in Errors : TanFail("new2", e)
    /\ UNCHANGED <<self, p_req, rm, p_wrk, p_inc, add_p, p_x, x, t, ret,
                   iter, fails, cc_uses>>
    /\ TanFrame

\* tan.rs:80-83: the argument is small enough for compute_small_exp!.
TanSmallExp ==
    /\ pc = "start"
    /\ ~self.zero
    /\ p' = round_p(p_req)
    /\ p_inc' = WORD_BIT_SIZE
    /\ p_wrk' = Max(p', self.mbl)
    /\ SmallExpTaken(TanSmallExpArg(self.exp), p_wrk')
    /\ \/ /\ pc' = "done"
          /\ result' = OkResult(SmallExpValue(self, p'))
          /\ last' = Op("compute_small_exp", "ok", "none")
       \/ \E e \in Errors : TanFail("compute_small_exp", e)
    /\ UNCHANGED <<self, p_req, rm, add_p, p_x, x, t, ret, iter, fails,
                   cc_uses>>
    /\ TanFrame

\* tan.rs:80-87: the adaptive loop is entered.
TanEnterLoop ==
    /\ pc = "start"
    /\ ~self.zero
    /\ p' = round_p(p_req)
    /\ p_inc' = WORD_BIT_SIZE
    /\ ~SmallExpTaken(TanSmallExpArg(self.exp), Max(p', self.mbl))
    /\ p_wrk' = Max(p', self.mbl) + p_inc'
    /\ add_p' = InitAddP
    /\ pc' = "clone"
    /\ UNCHANGED <<self, p_req, rm, p_x, x, t, ret, result, iter, fails,
                   cc_uses, last>>
    /\ TanFrame

\* tan.rs:88-89: a loop iteration starts; let mut x = self.clone()?
\* The locals of the previous iteration (x, t, ret) are gone.
TanClone ==
    /\ pc = "clone"
    /\ iter' = iter + 1
    /\ t' = 0
    /\ ret' = NoVal
    /\ \/ /\ x' = self
          /\ pc' = "set_precision"
          /\ last' = Op("clone", "ok", "none")
          /\ UNCHANGED result
       \/ /\ \E e \in Errors : TanFail("clone", e)
          /\ x' = NoVal
    /\ UNCHANGED <<self, p_req, rm, p, p_wrk, p_inc, add_p, p_x, fails,
                   cc_uses>>
    /\ TanFrame

\* tan.rs:91-92: p_x = p_wrk + add_p; x.set_precision(p_x, None)?
TanSetPrecision ==
    /\ pc = "set_precision"
    /\ p_x' = p_wrk + add_p
    /\ \/ /\ p_x' <= MaxPrec
          /\ x' = [x EXCEPT !.mbl = p_x']
          /\ pc' = "reduce_trig_arg"
          /\ last' = Op("set_precision", "ok", "none")
          /\ UNCHANGED result
       \/ /\ p_x' <= MaxPrec
          /\ \E e \in Errors : TanFail("set_precision", e)
          /\ UNCHANGED x
       \/ /\ p_x' > MaxPrec
          /\ TanFail("set_precision", "MemoryAllocation")
          /\ UNCHANGED x
    /\ UNCHANGED <<self, p_req, rm, p, p_wrk, p_inc, add_p, t, ret, iter,
                   fails, cc_uses>>
    /\ TanFrame

\* tan.rs:94: x = x.reduce_trig_arg(cc, None)?
TanReduceTrigArg ==
    /\ pc = "reduce_trig_arg"
    /\ cc_uses' = cc_uses + 1
    /\ \/ /\ \E r \in ReducedExps(x.exp) :
                x' = [x EXCEPT !.exp = r, !.num = "x mod pi"]
          /\ pc' = "pi_proximity"
          /\ last' = Op("reduce_trig_arg", "ok", "none")
          /\ UNCHANGED result
       \/ /\ \E e \in Errors : TanFail("reduce_trig_arg", e)
          /\ UNCHANGED x
    /\ UNCHANGED <<self, p_req, rm, p, p_wrk, p_inc, add_p, p_x, t, ret,
                   iter, fails>>
    /\ TanFrame

\* Variant of TanPiProximity whose retry also widens the working precision.
TanPiProximity_widen ==
    /\ pc = "pi_proximity"
    /\ cc_uses' = cc_uses + 1
    /\ \/ /\ \E tt \in TSet :
                /\ t' = tt
                /\ IF add_p < tt
                     THEN /\ add_p' = tt
                          /\ pc' = "clone"
                          /\ p_wrk' = p_wrk + p_inc
                     ELSE /\ add_p' = add_p
                          /\ pc' = "tan_series"
                          /\ p_wrk' = p_wrk
          /\ last' = Op("trig_arg_pi_proximity", "ok", "none")
          /\ UNCHANGED result
       \/ /\ \E e \in Errors : TanFail("trig_arg_pi_proximity", e)
          /\ UNCHANGED <<t, add_p, p_wrk>>
    /\ UNCHANGED <<self, p_req, rm, p, p_inc, p_x, x, ret, iter, fails>>
    /\ TanFrame

\* tan.rs:96-99: the pi-proximity test and the branch on it.
TanPiProximity ==
    /\ pc = "pi_proximity"
    /\ cc_uses' = cc_uses + 1
    /\ \/ /\ \E tt \in TSet :
                /\ t' = tt
                /\ IF add_p < tt
                     THEN add_p' = tt /\ pc' = "clone"
                     ELSE add_p' = add_p /\ pc' = "tan_series"
          /\ last' = Op("trig_arg_pi_proximity", "ok", "none")
          /\ UNCHANGED result
       \/ /\ \E e \in Errors : TanFail("trig_arg_pi_proximity", e)
          /\ UNCHANGED <<t, add_p>>
    /\ UNCHANGED <<self, p_req, rm, p, p_wrk, p_inc, p_x, x, ret, iter,
                   fails>>
    /\ TanFrame

\* tan.rs:100: let mut ret = x.tan_series(None)?
TanSeries ==
    /\ pc = "tan_series"
    /\ \/ /\ \E ie \in BOOLEAN :
                ret' = [zero |-> FALSE, sign |-> x.sign, inexact |-> ie,
                        mbl |-> x.mbl, exp |-> x.exp, sub |-> FALSE,
                        num |-> "tan(x)"]
          /\ pc' = "try_set_precision"
          /\ last' = Op("tan_series", "ok", "none")
          /\ UNCHANGED result
       \/ /\ \E e \in Errors : TanFail("tan_series", e)
          /\ UNCHANGED ret
    /\ UNCHANGED <<self, p_req, rm, p, p_wrk, p_inc, add_p, p_x, x, t, iter,
                   fails, cc_uses>>
    /\ TanFrame

\* tan.rs:102-108: the rounding attempt and what follows it.
TanTrySetPrecision ==
    /\ pc = "try_set_precision"
    /\ \/ /\ ret' = [ret EXCEPT !.mbl = p,
                                !.inexact = ret.inexact \/ self.inexact]
          /\ result' = OkResult(ret')
          /\ pc' = "done"
          /\ last' = Op("try_set_precision", "true", "none")
          /\ UNCHANGED <<p_wrk, p_inc, fails>>
       \/ /\ p_wrk' = NextPWrk(p_wrk, p_inc)
          /\ p_inc' = NextPInc(p_wrk')
          /\ fails' = fails + 1
          /\ pc' = "clone"
          /\ last' = Op("try_set_precision", "false", "none")
          /\ UNCHANGED <<ret, result>>
       \/ /\ \E e \in Errors : TanFail("try_set_precision", e)
          /\ UNCHANGED <<ret, p_wrk, p_inc, fails>>
    /\ UNCHANGED <<self, p_req, rm, p, add_p, p_x, x, t, iter, cc_uses>>
    /\ TanFrame

TanNext ==
    \/ TanZero
    \/ TanSmallExp
    \/ TanEnterLoop
    \/ TanClone
    \/ TanSetPrecision
    \/ TanReduceTrigArg
    \/ TanPiProximity
    \/ TanSeries
    \/ TanTrySetPrecision

SpecTan == TanInit /\ [][TanNext]_vars

\* tan is sequential code: it always takes its next step.
FairSpecTan == SpecTan /\ WF_vars(TanNext)

----------------------------------------------------------------------------
\* Properties of the tangent driver.

\* A step that starts another iteration of the adaptive loop.
TanLoopsBack == pc \notin {"start", "clone"} /\ pc' = "clone"

\* The last operation returned an error: the call is over, with that error.
TanErrorEndsCall ==
    last.out = "err" =>
        /\ pc = "done"
        /\ result = ErrResult(last.err)

\* The rounding attempt returned false.
TanRoundingRefused(l) == l.op = "try_set_precision" /\ l.out = "false"

\* C1 (as claimed): another iteration of the adaptive loop of tan is caused
\* only by a false result of try_set_precision, and every error returned by a
\* step of an iteration ends the call at once with that error and no result.
C1_OnlyRoundingRetries ==
    /\ []TanErrorEndsCall
    /\ [][TanLoopsBack => TanRoundingRefused(last')]_vars

\* C1 (amended): another iteration of the adaptive loop of tan is caused by a
\* false result of try_set_precision or by a pi-proximity measure t larger
\* than add_p, and by nothing else; every error returned by a step of an
\* iteration ends the call at once with that error and no result.
C1_RetryCauses ==
    /\ []TanErrorEndsCall
    /\ [][TanLoopsBack =>
            \/ TanRoundingRefused(last')
            \/ /\ last'.op = "trig_arg_pi_proximity"
               /\ last'.out = "ok"
               /\ add_p < t']_vars

\* C1 witness: the call went around the loop for both reasons and was then
\* ended by an error of the series.
C1_Witness ==
    /\ pc = "done"
    /\ result = ErrResult("ExponentOverflow")
    /\ last.op = "tan_series"
    /\ fails >= 1
    /\ add_p > InitAddP

\* C3: within one tan call p_x = p_wrk + add_p strictly increases from every
\* loop iteration to the next, p_wrk never decreases, and p_wrk is never
\* below max(requested precision, input precision).
C3_PrecisionMonotone ==
    /\ [](pc # "start" /\ ~self.zero =>
            /\ p_wrk >= Max(p_req, self.mbl)
            /\ p_wrk >= Max(p, self.mbl))
    /\ [][p_wrk' >= p_wrk]_vars
    /\ [][pc = "set_precision" => p_x' = p_wrk + add_p /\ p_x' > p_x]_vars

\* C3 witness: a third or later iteration has materialised its copy, after a
\* failed rounding attempt and after a pi-proximity retry.
C3_Witness ==
    /\ pc = "reduce_trig_arg"
    /\ iter >= 3
    /\ fails >= 1
    /\ add_p > InitAddP
    /\ x.mbl = p_x

\* C4: each failed rounding attempt of tan increases p_wrk by the current
\* step p_inc and restarts from a fresh clone of the unmodified argument; the
\* step is one word for the first failure, thereafter round_p(p_wrk / 5) of
\* the just-increased p_wrk, and always at least one word.
C4_StepGrowth ==
    /\ [][pc = "try_set_precision" /\ pc' = "clone" =>
            /\ p_wrk' = p_wrk + p_inc
            /\ p_inc' = round_p(p_wrk' \div 5)
            /\ fails = 0 => p_inc = WORD_BIT_SIZE]_vars
    /\ [][pc = "clone" /\ pc' = "set_precision" => x' = self]_vars
    /\ [][self' = self]_vars
    /\ [](pc \notin {"start", "done"} =>
            /\ p_inc >= WORD_BIT_SIZE
            /\ p_inc % WORD_BIT_SIZE = 0
            /\ 5 * p_inc >= p_wrk - 4 \/ fails = 0)

\* C4 witness: after several failures the step has grown above one word and
\* the next iteration has its fresh clone.
C4_Witness ==
    /\ pc = "set_precision"
    /\ fails >= 2
    /\ p_inc > WORD_BIT_SIZE
    /\ x = self

\* Number of loop iterations the precision cap of the model leaves room for.
TanIterBound == MaxPrec \div WORD_BIT_SIZE + Cardinality(TSet)

C6_ZeroShortCircuit ==
    self.zero =>
        /\ pc \in {"start", "done"}
        /\ iter = 0
        /\ cc_uses = 0
        /\ pc = "done" /\ result.ok =>
              /\ result.val.zero
              /\ result.val.sign = self.sign
              /\ result.val.inexact = self.inexact
              /\ result.val.mbl = round_p(p_req)
              /\ result.val.mbl >= p_req
              /\ result.val.mbl < p_req + WORD_BIT_SIZE
              /\ result.val.mbl % WORD_BIT_SIZE = 0

\* C6 witness: tan of an inexact negative zero has returned, at a precision
\* that had to be rounded up.
C6_Witness ==
    /\ pc = "done"
    /\ self.zero
    /\ self.sign = -1
    /\ self.inexact
    /\ p_req = WORD_BIT_SIZE + 1
    /\ result.ok

----------------------------------------------------------------------------
\* The cosine driver, cos.rs:111-132.

COS_EXP_THRES == -32

\* Exponents of the raw result of cos_series.
CosRetExps == {0, -1, COS_EXP_THRES, COS_EXP_THRES - 1, -100}

CosArgs ==
    [zero : {FALSE}, sign : {1, -1}, inexact : {FALSE},
     mbl : {WORD_BIT_SIZE, 2 * WORD_BIT_SIZE, 5 * WORD_BIT_SIZE},
     exp : {0, 1, 256}, sub : {FALSE}, num : {"x"}]

\* The tangent driver is not running.
TanIdle ==
    /\ pc = "idle"
    /\ self = NoVal /\ p_req = 0 /\ rm = "None"
    /\ p = 0 /\ p_wrk = 0 /\ p_inc = 0 /\ add_p = 0 /\ p_x = 0
    /\ x = NoVal /\ t = 0 /\ ret = NoVal
    /\ result = NoResult
    /\ iter = 0 /\ fails = 0 /\ cc_uses = 0
    /\ last = Op("none", "ok", "none")

\* What a step of cos leaves alone.
CosFrame == UNCHANGED <<tanVars, serVars, optVars, redVars, tsVars>>

CosInit ==
    /\ cos_pc = "reduce_trig_arg"
    /\ cos_self \in CosArgs
    /\ cos_rm \in {"None", "ToEven"}
    /\ cos_arg = NoVal /\ cos_arg1 = NoVal /\ cos_ret = NoVal
    /\ cos_result = NoResult
    /\ cos_nseries = 0
    /\ cos_last = Op("none", "ok", "none")
    /\ TanIdle
    /\ SeriesIdle
    /\ OptIdle
    /\ ReduceIdle
    /\ TrigSeriesIdle

\* An error returned by operation op: the ? operator returns it to the caller.
CosFail(op, e) ==
    /\ cos_pc' = "done"
    /\ cos_result' = ErrResult(e)
    /\ cos_last' = Op(op, "err", e)

\* cos.rs:124, the precision of arg for the second evaluation.
CosWidenedPrecision(a, r) == a.mbl + (IF r.exp < 0 THEN -r.exp ELSE r.exp)

\* Variant of CosNearSingularity that also takes the threshold itself.
CosNearSingularity_inclusive(r) == r.exp <= COS_EXP_THRES

\* cos.rs:121, the near-singularity test on the raw result.
CosNearSingularity(r) == r.exp < COS_EXP_THRES

\* The raw result of cos_series on argument a, of sign sg and exponent e.
CosSeriesValue(a, sg, e) ==
    [zero |-> FALSE, sign |-> sg, inexact |-> TRUE, mbl |-> a.mbl, exp |-> e,
     sub |-> FALSE, num |-> "cos(x)"]

\* cos.rs:113: let mut arg = self.reduce_trig_arg(cc, None)?
CosReduceTrigArg ==
    /\ cos_pc = "reduce_trig_arg"
    /\ \/ /\ \E r \in ReducedExps(cos_self.exp) :
                cos_arg' = [cos_self EXCEPT !.exp = r, !.num = "x mod pi"]
          /\ cos_pc' = "clone"
          /\ cos_last' = Op("reduce_trig_arg", "ok", "none")
          /\ UNCHANGED cos_result
       \/ /\ \E e \in Errors : CosFail("reduce_trig_arg", e)
          /\ UNCHANGED cos_arg
    /\ UNCHANGED <<cos_self, cos_rm, cos_arg1, cos_ret, cos_nseries>>
    /\ CosFrame

\* cos.rs:117: let arg1 = arg.clone()?
CosClone ==
    /\ cos_pc = "clone"
    /\ \/ /\ cos_arg1' = cos_arg
          /\ cos_pc' = "cos_series"
          /\ cos_last' = Op("clone", "ok", "none")
          /\ UNCHANGED cos_result
       \/ /\ \E e \in Errors : CosFail("clone", e)
          /\ UNCHANGED cos_arg1
    /\ UNCHANGED <<cos_self, cos_rm, cos_arg, cos_ret, cos_nseries>>
    /\ CosFrame

\* cos.rs:119-121: ret = arg1.cos_series(None)?, and the test on its exponent.
CosSeries ==
    /\ cos_pc = "cos_series"
    /\ cos_nseries' = cos_nseries + 1
    /\ \/ /\ \E e \in CosRetExps, sg \in {1, -1} :
                /\ cos_ret' = CosSeriesValue(cos_arg1, sg, e)
                /\ cos_pc' = IF CosNearSingularity(cos_ret')
                               THEN "widen" ELSE "set_precision"
          /\ cos_arg1' = NoVal
          /\ cos_last' = Op("cos_series", "ok", "none")
          /\ UNCHANGED cos_result
       \/ /\ \E e \in Errors : CosFail("cos_series", e)
          /\ UNCHANGED <<cos_ret, cos_arg1>>
    /\ UNCHANGED <<cos_self, cos_rm, cos_arg>>
    /\ CosFrame

\* cos.rs:124: arg.set_precision(arg.mbl + |ret.exponent|, None)?
CosWiden ==
    /\ cos_pc = "widen"
    /\ \/ /\ cos_arg' = [cos_arg EXCEPT
                           !.mbl = CosWidenedPrecision(cos_arg, cos_ret)]
          /\ cos_pc' = "cos_series_again"
          /\ cos_last' = Op("set_precision", "ok", "none")
          /\ UNCHANGED cos_result
       \/ /\ \E e \in Errors : CosFail("set_precision", e)
          /\ UNCHANGED cos_arg
    /\ UNCHANGED <<cos_self, cos_rm, cos_arg1, cos_ret, cos_nseries>>
    /\ CosFrame

\* cos.rs:126: ret = arg.cos_series(None)?
CosSeriesAgain ==
    /\ cos_pc = "cos_series_again"
    /\ cos_nseries' = cos_nseries + 1
    /\ \/ /\ \E e \in CosRetExps, sg \in {1, -1} :
                cos_ret' = CosSeriesValue(cos_arg, sg, e)
          /\ cos_arg' = NoVal
          /\ cos_pc' = "set_precision"
          /\ cos_last' = Op("cos_series", "ok", "none")
          /\ UNCHANGED cos_result
       \/ /\ \E e \in Errors : CosFail("cos_series", e)
          /\ UNCHANGED <<cos_ret, cos_arg>>
    /\ UNCHANGED <<cos_self, cos_rm, cos_arg1>>
    /\ CosFrame

\* cos.rs:129-131: ret.set_precision(self.mbl, rm)?; Ok(ret)
CosSetPrecision ==
    /\ cos_pc = "set_precision"
    /\ \/ /\ cos_ret' = [cos_ret EXCEPT !.mbl = cos_self.mbl]
          /\ cos_result' = OkResult(cos_ret')
          /\ cos_pc' = "done"
          /\ cos_last' = Op("set_precision", "ok", "none")
       \/ /\ \E e \in Errors : CosFail("set_precision", e)
          /\ UNCHANGED cos_ret
    /\ UNCHANGED <<cos_self, cos_rm, cos_arg, cos_arg1, cos_nseries>>
    /\ CosFrame

CosNext ==
    \/ CosReduceTrigArg
    \/ CosClone
    \/ CosSeries
    \/ CosWiden
    \/ CosSeriesAgain
    \/ CosSetPrecision

SpecCos == CosInit /\ [][CosNext]_vars

----------------------------------------------------------------------------
\* Properties of the cosine driver.

\* C2: the cosine driver follows the state machine of the tangent driver: it
\* attempts to verify the rounding of the working-precision result, returns
\* to ReduceArgument with a strictly larger working precision when the
\* verification fails, and reaches Done only after a successful verification.
C2_CosVerifiesRounding ==
    (cos_pc = "done" /\ cos_result.ok) =>
        /\ cos_last.op = "try_set_precision"
        /\ cos_last.out = "true"

----------------------------------------------------------------------------
\* Coefficient generators (trait PolycoeffGen, series.rs:23-34).  A generator
\* is a record [kind, is_div, n, inc, fct, sign, p]; n counts the calls of
\* next, and fct is the coefficient the last call returned.

\* Precision of the numbers of the series evaluator in this model.
SeriesPrec == 8

\* Precision of the counter inc of the cosine generator (one word).
IncPrec == 10

\* CosPolycoeffGen::new(p), cos.rs:35-52
CosPolycoeffGen(pp) ==
    [kind |-> "cos", is_div |-> FALSE, n |-> 0, inc |-> 0,
     fct |-> FromWord(1, pp), sign |-> 1, p |-> pp]

\* A divisor-based generator: the odd numbers 3, 5, 7, ...
DivPolycoeffGen(pp) ==
    [kind |-> "div", is_div |-> TRUE, n |-> 0, inc |-> 1,
     fct |-> FromWord(1, pp), sign |-> 1, p |-> pp]

\* Variant of CosFactor that multiplies by inc instead of its reciprocal.
CosFactor_product(f, i, pp) == FMul(f, FromWord(i, IncPrec), pp)

\* One factor of CosPolycoeffGen::next, cos.rs:59-61: fct * (1 / inc)
CosFactor(f, i, pp) ==
    FMul(f, FDiv(FromWord(1, pp), FromWord(i, IncPrec), pp), pp)

\* CosPolycoeffGen::next, cos.rs:57-75
CosNextCoeff(g) ==
    LET f1 == CosFactor(g.fct, g.inc + 1, g.p)
        f2 == CosFactor(f1, g.inc + 2, g.p)
        sg == -g.sign
    IN  [g EXCEPT !.n = @ + 1, !.inc = @ + 2, !.sign = sg,
                  !.fct = [f2 EXCEPT !.s = sg]]

\* next of the divisor-based generator
DivNextCoeff(g) ==
    [g EXCEPT !.n = @ + 1, !.inc = @ + 2,
              !.fct = FromWord(g.inc + 2, IncPrec)]

\* polycoeff_gen.next(None): the generator after the call; its fct is the
\* coefficient returned.
GenNext(g) == IF g.kind = "cos" THEN CosNextCoeff(g) ELSE DivNextCoeff(g)

----------------------------------------------------------------------------
\* The series evaluator, series.rs.

MAX_CACHE == 128

\* Variant of RECT_ITER_THRESHOLD that multiplies before it divides.
RECT_ITER_THRESHOLD_scaled == (MAX_CACHE * 9) \div 10

\* series.rs:16; the division is the integer division of usize: 12 * 9
RECT_ITER_THRESHOLD == (MAX_CACHE \div 10) * 9

\* Largest iteration estimate handed to series_run.
MaxNiter == 121

\* The largest r at or above r0 whose square does not exceed n.
RECURSIVE SqrtFrom(_, _)
SqrtFrom(n, r) == IF (r + 1) * (r + 1) > n THEN r ELSE SqrtFrom(n, r + 1)

\* Variant of sqrt_int that rounds the square root down.
sqrt_int_floor(n) == SqrtFrom(n, 0)

\* sqrt_int: the integer square root, rounded up; the cache of
\* series_rectangular has min(128, ceiling(sqrt(niter))) entries.
sqrt_int(n) ==
    LET r == SqrtFrom(n, 0)
    IN  IF r * r = n THEN r ELSE r + 1

\* p of a strategy: the largest mantissa_max_bit_len of its three numbers
Prec3(a, b, c) == Max(Max(a.p, b.p), c.p)

\* coeff.reciprocal(p, None)
FReciprocal(c, pp) == FDiv(FromWord(1, pp), c, pp)

\* A term: the power divided or multiplied by the coefficient
\* (series.rs:158-162, 255-259, 293-297).
Term(x_pow, coeff, is_div, pp) ==
    IF is_div THEN FDiv(x_pow, coeff, pp) ELSE FMul(x_pow, coeff, pp)

\* Variant of Strategy that looks at the generator before the estimate.
Strategy_div_first(x_first, x_step, niter, is_div) ==
    IF FIsZero(x_first) \/ FIsZero(x_step) THEN "fast"
    ELSE IF is_div THEN "linear"
    ELSE IF niter >= RECT_ITER_THRESHOLD THEN "rectangular"
    ELSE "horner"

\* series.rs:93-101, the dispatch of series_run
Strategy(x_first, x_step, niter, is_div) ==
    IF FIsZero(x_first) \/ FIsZero(x_step) THEN "fast"
    ELSE IF niter >= RECT_ITER_THRESHOLD THEN "rectangular"
    ELSE IF is_div THEN "linear"
    ELSE "horner"

\* Variant of SeriesRunMark that returns the value as the strategy left it.
SeriesRunMark_skip(r) == r

\* series.rs:103, ret.set_inexact(true)
SeriesRunMark(r) == FSetInexact(r, TRUE)

\* Variant of series_compute_fast that multiplies whatever the generator is.
series_compute_fast_mul(acc, x_first, g) ==
    IF FIsZero(x_first)
      THEN [val |-> acc, gen |-> g]
      ELSE LET pp == Max(acc.p, x_first.p)
               g1 == GenNext(g)
           IN  [val |-> FAdd(acc, FMul(x_first, g1.fct, pp), pp), gen |-> g1]

\* series.rs:142-166
series_compute_fast(acc, x_first, g) ==
    IF FIsZero(x_first)
      THEN [val |-> acc, gen |-> g]
      ELSE LET pp == Max(acc.p, x_first.p)
               g1 == GenNext(g)
           IN  [val |-> FAdd(acc, Term(x_first, g1.fct, g.is_div, pp), pp),
                gen |-> g1]

\* series.rs:291-299, the loop of compute_row over the cached powers
RECURSIVE RowLoop(_, _, _, _, _)
RowLoop(pp, cache, i, acc, g) ==
    IF i > Len(cache)
      THEN [val |-> acc, gen |-> g]
      ELSE LET g1 == GenNext(g)
           IN  RowLoop(pp, cache, i + 1,
                       FAdd(acc, Term(cache[i], g1.fct, g.is_div, pp), pp), g1)

\* series.rs:275-302
compute_row(pp, cache, g) ==
    LET g1 == GenNext(g)
        c0 == IF g.is_div THEN FReciprocal(g1.fct, pp) ELSE g1.fct
    IN  RowLoop(pp, cache, 1, FAdd(FZero(pp), c0, pp), g1)

\* Variant of BuildCache whose final power is the last cached one.
RECURSIVE BuildCache_short(_, _, _, _, _)
BuildCache_short(pp, x_step, n, cache, x_pow) ==
    IF n = 0
      THEN [cache |-> cache,
            x_pow |-> IF cache = <<>> THEN x_pow ELSE cache[Len(cache)]]
      ELSE BuildCache_short(pp, x_step, n - 1, Append(cache, x_pow),
                            FMul(x_pow, x_step, pp))

\* series.rs:197-202: the cache x_step^1 .. x_step^cache_sz and the power
\* that follows them
RECURSIVE BuildCache(_, _, _, _, _)
BuildCache(pp, x_step, n, cache, x_pow) ==
    IF n = 0
      THEN [cache |-> cache, x_pow |-> x_pow]
      ELSE BuildCache(pp, x_step, n - 1, Append(cache, x_pow),
                      FMul(x_pow, x_step, pp))

\* series.rs:336-339: the cached coefficients folded back to front
RECURSIVE HornerFold(_, _, _, _, _)
HornerFold(pp, cache, i, acc, x_step) ==
    IF i = 0
      THEN acc
      ELSE HornerFold(pp, cache, i - 1,
                      FAdd(FMul(acc, x_step, pp), cache[i], pp), x_step)

\* Arguments of series_run.  The powers are below 1 in magnitude, as the
\* callers (cos_series, cos.rs:151-155) produce them.
SeriesAccs ==
    {FromWord(1, SeriesPrec), FSetInexact(FromWord(1, SeriesPrec), TRUE),
     FZero(SeriesPrec)}

SeriesPowers ==
    {FZero(SeriesPrec),
     FNorm(1, 1, -1, SeriesPrec, FALSE),
     FNorm(1, 3, -3, SeriesPrec, TRUE),
     FNorm(-1, 5, -6, SeriesPrec - 2, FALSE)}

SeriesNiters == {0, 7, RECT_ITER_THRESHOLD - 1, RECT_ITER_THRESHOLD, MaxNiter}

SeriesGens == {CosPolycoeffGen(SeriesPrec), DivPolycoeffGen(SeriesPrec)}

\* What a step of the series evaluator leaves alone.
SeriesFrame == UNCHANGED <<tanVars, cosVars, optVars, redVars, tsVars>>

SeriesInit ==
    /\ ser_pc = "series_run"
    /\ ser_in \in [acc : SeriesAccs, x_first : SeriesPowers,
                   x_step : SeriesPowers, niter : SeriesNiters]
    /\ ser_gen \in SeriesGens
    /\ ser_loc = NoVal
    /\ ser_strategy = <<>>
    /\ ser_iters = 0
    /\ ser_result = NoResult
    /\ ser_ref = NoVal
    /\ TanIdle
    /\ CosIdle
    /\ OptIdle
    /\ ReduceIdle
    /\ TrigSeriesIdle

\* An allocation failure of the value type, returned by the ? operator.
SeriesFail ==
    /\ ser_pc' = "done"
    /\ ser_result' = ErrResult("MemoryAllocation")
    /\ ser_loc' = NoVal

\* A strategy returns value v to series_run (the ? of series.rs:101).
SeriesReturn(v) ==
    /\ ser_pc' = "set_inexact"
    /\ ser_loc' = [ret |-> v]

\* Variant of LinearStop that lets a term of exactly one unit in the last
\* place of the accumulator through.
LinearStop_strict(part, acc) == part.e < acc.e - acc.p

\* series.rs:263, the convergence test of series_linear on the term just
\* added and the accumulator it was added to
LinearStop(part, acc) == part.e <= acc.e - acc.p

\* Entry of series_linear(acc, x_first, x_step, gen), series.rs:245-251
LinearEntry(acc, x_first, x_step) ==
    [p |-> Prec3(acc, x_first, x_step), acc |-> acc, x_pow |-> x_first,
     x_step |-> x_step]

\* Variant of HornerEntry that forgets the step factor in the initial x_p.
HornerEntry_short(add, x_first, x_step) ==
    [p |-> Prec3(add, x_first, x_step), add |-> add, x_first |-> x_first,
     x_step |-> x_step, cache |-> <<>>,
     x_p |-> -x_first.e, coef_p |-> 0]

\* Entry of series_horner(add, x_first, x_step, gen), series.rs:316-324
HornerEntry(add, x_first, x_step) ==
    [p |-> Prec3(add, x_first, x_step), add |-> add, x_first |-> x_first,
     x_step |-> x_step, cache |-> <<>>,
     x_p |-> (-x_first.e) - x_step.e, coef_p |-> 0]

\* series.rs:93-101: series_run chooses the strategy.
series_run ==
    /\ ser_pc = "series_run"
    /\ LET st == Strategy(ser_in.x_first, ser_in.x_step, ser_in.niter,
                          ser_gen.is_div)
       IN  /\ ser_strategy' = Append(ser_strategy, st)
           /\ ser_pc' = st
           /\ ser_loc' =
                CASE st = "fast" -> NoVal
                  [] st = "rectangular" -> [niter |-> ser_in.niter]
                  [] st = "linear" ->
                       LinearEntry(ser_in.acc, ser_in.x_first, ser_in.x_step)
                  [] st = "horner" ->
                       HornerEntry(ser_in.acc, ser_in.x_first, ser_in.x_step)
    /\ UNCHANGED <<ser_ref, ser_in, ser_gen, ser_iters, ser_result>>
    /\ SeriesFrame

\* series.rs:142-166: the degenerate argument.
SeriesComputeFast ==
    /\ ser_pc = "fast"
    /\ \/ LET r == series_compute_fast(ser_in.acc, ser_in.x_first, ser_gen)
          IN  /\ SeriesReturn(r.val)
              /\ ser_gen' = r.gen
              /\ UNCHANGED ser_result
       \/ /\ ~FIsZero(ser_in.x_first)
          /\ SeriesFail
          /\ UNCHANGED ser_gen
    /\ UNCHANGED <<ser_ref, ser_in, ser_strategy, ser_iters>>
    /\ SeriesFrame

\* series.rs:253-269: one iteration of the loop of series_linear.
SeriesLinear ==
    /\ ser_pc = "linear"
    /\ \/ LET g1   == GenNext(ser_gen)
              part == Term(ser_loc.x_pow, g1.fct, ser_gen.is_div, ser_loc.p)
              acc  == FAdd(ser_loc.acc, part, ser_loc.p)
          IN  /\ ser_gen' = g1
              /\ IF LinearStop(part, acc)
                   THEN SeriesReturn(acc)
                   ELSE /\ ser_pc' = "linear"
                        /\ ser_loc' =
                             [ser_loc EXCEPT
                                !.acc = acc,
                                !.x_pow = FMul(ser_loc.x_pow, ser_loc.x_step,
                                               ser_loc.p)]
              /\ UNCHANGED ser_result
       \/ /\ SeriesFail
          /\ UNCHANGED ser_gen
    /\ ser_iters' = ser_iters + 1
    /\ UNCHANGED <<ser_ref, ser_in, ser_strategy>>
    /\ SeriesFrame

\* series.rs:326-331: one iteration of the caching loop of series_horner.
SeriesHornerCache ==
    /\ ser_pc = "horner"
    /\ ser_loc.x_p + ser_loc.coef_p < ser_loc.p - ser_loc.add.e
    /\ \/ LET g1 == GenNext(ser_gen)
          IN  /\ ser_gen' = g1
              /\ ser_loc' = [ser_loc EXCEPT
                               !.coef_p = -g1.fct.e,
                               !.x_p = @ + (-ser_loc.x_step.e),
                               !.cache = Append(@, g1.fct)]
              /\ ser_pc' = "horner"
              /\ UNCHANGED ser_result
       \/ /\ SeriesFail
          /\ UNCHANGED ser_gen
    /\ ser_iters' = ser_iters + 1
    /\ UNCHANGED <<ser_ref, ser_in, ser_strategy>>
    /\ SeriesFrame

\* series.rs:333-343: the last coefficient and the fold of series_horner.
SeriesHornerFold ==
    /\ ser_pc = "horner"
    /\ ~(ser_loc.x_p + ser_loc.coef_p < ser_loc.p - ser_loc.add.e)
    /\ \/ LET g1  == GenNext(ser_gen)
              acc == HornerFold(ser_loc.p, ser_loc.cache, Len(ser_loc.cache),
                                g1.fct, ser_loc.x_step)
          IN  /\ ser_gen' = g1
              /\ SeriesReturn(FAdd(ser_loc.add,
                                   FMul(acc, ser_loc.x_first, ser_loc.p),
                                   ser_loc.p))
              /\ UNCHANGED ser_result
       \/ /\ SeriesFail
          /\ UNCHANGED ser_gen
    /\ UNCHANGED <<ser_ref, ser_in, ser_strategy, ser_iters>>
    /\ SeriesFrame

\* Variant of RectBeforeReserve in which a coefficient is pulled before the
\* cache is reserved.
RectBeforeReserve_pulled(g) == GenNext(g)

\* series.rs:185-196: the generator when the cache is reserved; nothing has
\* been pulled from it yet.
RectBeforeReserve(g) == g

\* series.rs:185-196: series_rectangular creates its accumulator and reserves
\* the power cache; both can fail.
SeriesRectReserve ==
    /\ ser_pc = "rectangular"
    /\ ser_gen' = RectBeforeReserve(ser_gen)
    /\ \/ /\ ser_loc' =
               [niter |-> ser_loc.niter,
                p |-> Prec3(ser_in.acc, ser_in.x_first, ser_in.x_step),
                cache_sz |-> Min(MAX_CACHE, sqrt_int(ser_loc.niter))]
          /\ ser_pc' = "rect_cache"
          /\ UNCHANGED ser_result
       \/ SeriesFail
    /\ UNCHANGED <<ser_ref, ser_in, ser_strategy, ser_iters>>
    /\ SeriesFrame

\* series.rs:197-208: series_rectangular fills its cache and sums the first
\* row.  A failure can come after coefficients were pulled.
SeriesRectStart ==
    /\ ser_pc = "rect_cache"
    /\ LET pp  == ser_loc.p
           cache_sz == ser_loc.cache_sz
           c   == BuildCache(pp, ser_in.x_step, cache_sz, <<>>,
                             ser_in.x_step)
           row == compute_row(pp, c.cache, ser_gen)
       IN  \/ /\ ser_gen' = row.gen
              /\ ser_loc' = [p |-> pp, cache |-> c.cache, cache_sz |-> cache_sz,
                             x_pow |-> c.x_pow,
                             acc |-> FAdd(FZero(pp), row.val, pp),
                             terminal_pow |-> c.x_pow,
                             niter |-> ser_loc.niter - cache_sz]
              /\ ser_pc' = "rect_loop"
              /\ UNCHANGED ser_result
           \/ /\ SeriesFail
              /\ ser_gen' \in {ser_gen, row.gen}
    /\ UNCHANGED <<ser_ref, ser_in, ser_strategy, ser_iters>>
    /\ SeriesFrame

\* series.rs:215-219: niter -= cache_sz on a usize, and the test that ends
\* the loop.  A difference below zero is an arithmetic overflow: the build
\* with overflow checks panics, the build without them wraps the counter,
\* and the loop then goes on for about USIZE_MAX / cache_sz further rows,
\* which are not followed.  USIZE_MAX stands for usize::MAX, scaled to the
\* integers of the model.
USIZE_MAX == 2147483647

RowCounterOutcomes(left, cache_sz) ==
    IF left < 0
      THEN {[pc |-> "panic", niter |-> left],
            [pc |-> "rect_wrapped", niter |-> USIZE_MAX + (left + 1)]}
      ELSE {[pc |-> IF left < cache_sz THEN "rect_rest" ELSE "rect_loop",
             niter |-> left]}

\* series.rs:210-220: one row of the loop of series_rectangular.
SeriesRectRow ==
    /\ ser_pc = "rect_loop"
    /\ \/ LET row  == compute_row(ser_loc.p, ser_loc.cache, ser_gen)
              part == FMul(row.val, ser_loc.terminal_pow, ser_loc.p)
              left == ser_loc.niter - ser_loc.cache_sz
          IN  /\ ser_gen' = row.gen
              /\ \E out \in RowCounterOutcomes(left, ser_loc.cache_sz) :
                    /\ ser_loc' = [ser_loc EXCEPT
                                     !.acc = FAdd(@, part, ser_loc.p),
                                     !.terminal_pow = FMul(@, ser_loc.x_pow,
                                                           ser_loc.p),
                                     !.niter = out.niter]
                    /\ ser_pc' = out.pc
              /\ UNCHANGED ser_result
       \/ /\ SeriesFail
          /\ UNCHANGED ser_gen
    /\ ser_iters' = ser_iters + 1
    /\ UNCHANGED <<ser_ref, ser_in, ser_strategy>>
    /\ SeriesFrame

\* series.rs:221-232: series_rectangular hands the rest to series_horner or
\* to series_linear.
SeriesRectRest ==
    /\ ser_pc = "rect_rest"
    /\ \/ LET acc1 == FMul(ser_loc.acc, ser_in.x_first, ser_loc.p)
              tp   == FMul(ser_loc.terminal_pow, ser_in.x_first, ser_loc.p)
              acc2 == FAdd(acc1, ser_in.acc, ser_loc.p)
          IN  /\ IF ser_loc.niter < MAX_CACHE * 10 /\ ~ser_gen.is_div
                    THEN /\ ser_pc' = "horner"
                         /\ ser_loc' = HornerEntry(acc2, tp, ser_in.x_step)
                    ELSE /\ ser_pc' = "linear"
                         /\ ser_loc' = LinearEntry(acc2, tp, ser_in.x_step)
              /\ UNCHANGED ser_result
       \/ SeriesFail
    /\ UNCHANGED <<ser_ref, ser_in, ser_gen, ser_strategy, ser_iters>>
    /\ SeriesFrame

\* series.rs:103-105: ret.set_inexact(true); Ok(ret)
SeriesSetInexact ==
    /\ ser_pc = "set_inexact"
    /\ ser_result' = OkResult(SeriesRunMark(ser_loc.ret))
    /\ ser_pc' = "done"
    /\ ser_loc' = NoVal
    /\ UNCHANGED <<ser_ref, ser_in, ser_gen, ser_strategy, ser_iters>>
    /\ SeriesFrame

SeriesNext ==
    \/ series_run
    \/ SeriesComputeFast
    \/ SeriesLinear
    \/ SeriesHornerCache
    \/ SeriesHornerFold
    \/ SeriesRectReserve
    \/ SeriesRectStart
    \/ SeriesRectRow
    \/ SeriesRectRest
    \/ SeriesSetInexact

SpecSeries == SeriesInit /\ [][SeriesNext]_vars

----------------------------------------------------------------------------
\* series_rectangular against series_linear: the same series is evaluated by
\* a direct call of series_rectangular and then, with a fresh generator of
\* the same kind, by a direct call of series_linear.

\* Iteration estimates: the smallest one series_rectangular admits
\* (series.rs:183) and estimates on both sides of the cache limit MAX_CACHE.
CompareNiters == {4, 5, 6, 50, 100, 130, 500}

\* A fresh generator of the kind of g.
FreshGen(g) ==
    IF g.kind = "cos" THEN CosPolycoeffGen(g.p) ELSE DivPolycoeffGen(g.p)

CompareInit ==
    /\ ser_pc = "rectangular"
    /\ ser_in \in [acc : SeriesAccs,
                   x_first : {v \in SeriesPowers : ~FIsZero(v)},
                   x_step : {v \in SeriesPowers : ~FIsZero(v)},
                   niter : CompareNiters]
    /\ ser_gen \in SeriesGens
    /\ ser_loc = [niter |-> ser_in.niter]
    /\ ser_strategy = <<"rectangular">>
    /\ ser_iters = 0
    /\ ser_result = NoResult
    /\ ser_ref = NoVal
    /\ TanIdle
    /\ CosIdle
    /\ OptIdle
    /\ ReduceIdle
    /\ TrigSeriesIdle

\* series_rectangular has returned; series_linear is called on the same
\* arguments with a fresh generator.
CompareLinear ==
    /\ ser_pc = "set_inexact"
    /\ ser_ref = NoVal
    /\ ser_ref' = ser_loc.ret
    /\ ser_gen' = FreshGen(ser_gen)
    /\ ser_loc' = LinearEntry(ser_in.acc, ser_in.x_first, ser_in.x_step)
    /\ ser_pc' = "linear"
    /\ ser_strategy' = Append(ser_strategy, "linear")
    /\ ser_iters' = 0
    /\ UNCHANGED <<ser_in, ser_result>>
    /\ SeriesFrame

CompareNext ==
    \/ SeriesRectReserve
    \/ SeriesRectStart
    \/ SeriesRectRow
    \/ SeriesRectRest
    \/ SeriesHornerCache
    \/ SeriesHornerFold
    \/ SeriesLinear
    \/ CompareLinear

SpecCompare == CompareInit /\ [][CompareNext]_vars

----------------------------------------------------------------------------
\* Properties of series_run.

\* The argument of series_run is degenerate.
SeriesDegenerate == FIsZero(ser_in.x_first) \/ FIsZero(ser_in.x_step)

\* The positions that belong to strategy st.
StrategyPcs(st) ==
    CASE st = "fast" -> {"fast"}
      [] st = "rectangular" ->
           {"rectangular", "rect_cache", "rect_loop", "rect_rest", "horner",
            "linear"}
      [] st = "linear" -> {"linear"}
      [] st = "horner" -> {"horner"}

\* C8: series_run chooses its strategy by the first rule that matches:
\* (1) x_first or x_step zero: the fast path, whatever niter and is_div are;
\* (2) niter at or above the rectangular threshold: rectangular, whatever
\* is_div is; (3) a divisor-based generator: linear; (4) otherwise Horner.
\* Exactly one strategy runs per call.
C8_DispatchOrder ==
    ser_pc \notin {"idle", "series_run"} =>
        /\ Len(ser_strategy) = 1
        /\ LET st  == ser_strategy[1]
               big == ser_in.niter >= RECT_ITER_THRESHOLD
           IN  /\ SeriesDegenerate => st = "fast"
               /\ ~SeriesDegenerate /\ big => st = "rectangular"
               /\ ~SeriesDegenerate /\ ~big /\ ser_gen.is_div => st = "linear"
               /\ ~SeriesDegenerate /\ ~big /\ ~ser_gen.is_div => st = "horner"
               /\ ser_pc \in StrategyPcs(st) \cup {"set_inexact", "done"}

\* C8 witness: a divisor-based generator with a large estimate has been
\* evaluated by the rectangular strategy.
C8_Witness ==
    /\ ser_pc = "done"
    /\ ser_result.ok
    /\ ser_gen.is_div
    /\ ser_in.niter >= RECT_ITER_THRESHOLD
    /\ ser_strategy = <<"rectangular">>

\* C9: every successful result of series_run is marked inexact, whichever
\* strategy produced it and whatever the inexact flags of the inputs are.
C9_ResultInexact ==
    (ser_pc = "done" /\ ser_result.ok) => ser_result.val.inexact

\* C9 witness: the degenerate path has returned an exact accumulator without
\* adding a term.
C9_Witness ==
    /\ ser_pc = "done"
    /\ ser_result.ok
    /\ ser_strategy = <<"fast">>
    /\ FIsZero(ser_in.x_first)
    /\ ~ser_in.acc.inexact
    /\ ~FIsZero(ser_in.acc)
    /\ ser_gen.n = 0

\* Two numbers hold the same value at the same precision.
SameNumber(a, b) == a.s = b.s /\ a.m = b.m /\ a.e = b.e /\ a.p = b.p

\* The first coefficient of the generator: -1/2! for the cosine generator,
\* 3 for the divisor-based one.
IsFirstCoeff(g, c) ==
    IF g.kind = "cos"
      THEN c.s = -1 /\ c.e = 0 /\ 2 * c.m = 2^c.p
      ELSE c.s = 1 /\ c.e = 2 /\ 4 * c.m = 3 * 2^c.p

\* C10: on a degenerate argument series_run computes at most one term and
\* enters no loop: with x_first zero the accumulator is returned and no
\* coefficient is pulled; with x_first nonzero and x_step zero exactly one
\* coefficient is pulled and the result is acc + x_first * coeff, or
\* acc + x_first / coeff for a divisor-based generator.
C10_DegenerateOneTerm ==
    SeriesDegenerate =>
        /\ ser_iters = 0
        /\ ser_pc \in {"series_run", "fast", "set_inexact", "done"}
        /\ (ser_pc = "done" /\ ser_result.ok) =>
              IF FIsZero(ser_in.x_first)
                THEN /\ ser_gen.n = 0
                     /\ SameNumber(ser_result.val, ser_in.acc)
                ELSE LET c  == ser_gen.fct
                         pp == Max(ser_in.acc.p, ser_in.x_first.p)
                         tm == IF ser_gen.is_div
                                 THEN FDiv(ser_in.x_first, c, pp)
                                 ELSE FMul(ser_in.x_first, c, pp)
                     IN  /\ ser_gen.n = 1
                         /\ IsFirstCoeff(ser_gen, c)
                         /\ SameNumber(ser_result.val,
                                       FAdd(ser_in.acc, tm, pp))

\* C10 witness: a nonzero first power with a zero step factor and a
\* divisor-based generator has returned after one pull.
C10_Witness ==
    /\ ser_pc = "done"
    /\ ser_result.ok
    /\ ~FIsZero(ser_in.x_first)
    /\ FIsZero(ser_in.x_step)
    /\ ser_gen.is_div
    /\ ser_gen.n = 1

----------------------------------------------------------------------------
\* The cost model and the reduction optimizer, series.rs:51-84 and 115-139.
\* A caller is a function family: "tan" (TanPolycoeffGen and
\* TanArgReductionEstimator, tan.rs:22-61) or "cos" (CosPolycoeffGen and
\* CosArgReductionEstimator, cos.rs:25-101).

\* Variant of U64_MAX: the first cost is compared with the smallest cost.
U64_MAX_least == MAX_CACHE - MAX_CACHE

\* u64::MAX, the initial value of cost1 (series.rs:66), at the width of the
\* integers of this model.
U64_MAX == 2147483647

\* log2_floor(n)
log2_floor(n) == BitLen(n) - 1

\* calc_add_cost(p): the number of words of the operands.
calc_add_cost(pp) == pp \div WORD_BIT_SIZE

\* calc_mul_cost(p): schoolbook multiplication of the words.
calc_mul_cost(pp) == (pp \div WORD_BIT_SIZE) * (pp \div WORD_BIT_SIZE)

\* polycoeff_gen.iter_cost(): tan.rs:27-28, cos.rs:41
iter_cost(fam, pp) ==
    IF fam = "tan"
      THEN 9 * calc_mul_cost(pp)
           + 2 * (calc_add_cost(pp) + calc_add_cost(WORD_BIT_SIZE))
      ELSE (calc_mul_cost(pp) + calc_add_cost(pp)) * 2

\* S::reduction_cost(n, p): tan.rs:50-54, cos.rs:88-93
reduction_cost(fam, n, pp) ==
    IF fam = "tan"
      THEN n * (2 * calc_mul_cost(pp) + calc_add_cost(pp))
      ELSE (n * (calc_mul_cost(pp) * 2 + calc_add_cost(pp))) * 2

\* S::reduction_effect(n, m): tan.rs:58-60, cos.rs:97-100
reduction_effect(fam, n, m) ==
    IF fam = "tan" THEN n + m ELSE (n * 1000) \div 631 + m

\* series.rs:115-119
series_niter(pp, m) ==
    LET ln  == log2_floor(pp)
        lln == log2_floor(ln)
    IN  pp \div (ln - lln + m - 2)

\* series.rs:125-139
series_cost(niter, pp, ic) ==
    LET cost_mul == calc_mul_cost(pp)
        cost_add == calc_add_cost(pp)
        cost     == niter * (cost_mul + cost_add + ic)
    IN  IF niter >= RECT_ITER_THRESHOLD
          THEN cost + sqrt_int(niter) * cost_mul
               + (niter \div 10) * (cost_mul * 2 + cost_add + ic)
          ELSE cost

\* series.rs:58
ReductionNumStep(pp) == log2_floor(pp) \div 2

\* series.rs:60-64
InitialReductionTimes(pp, m) ==
    IF ReductionNumStep(pp) > m THEN ReductionNumStep(pp) - m ELSE 0

\* Variant of OptReturnedTimes that returns the count that was just rejected.
OptReturnedTimes_rejected(loc) == loc.reduction_times

\* series.rs:81, the reduction count returned
OptReturnedTimes(loc) == loc.reduction_times - loc.reduction_num_step

\* Variant of OptEvaluate in which the reduction cost belongs to the else
\* branch only.
OptEvaluate_else(in, r) ==
    LET m_eff == reduction_effect(in.fam, r, in.m)
        niter == series_niter(in.p, m_eff) \div in.pwr_step
        cost2 == IF in.ext
                   THEN iter_cost(in.fam, in.p) * niter
                   ELSE series_cost(niter, in.p, iter_cost(in.fam, in.p))
                        + reduction_cost(in.fam, r, in.p)
    IN  [m_eff |-> m_eff, niter |-> niter, cost2 |-> cost2]

\* series.rs:69-75: what one pass of the loop computes for reduction count r
OptEvaluate(in, r) ==
    LET m_eff == reduction_effect(in.fam, r, in.m)
        niter == series_niter(in.p, m_eff) \div in.pwr_step
        cost2 == (IF in.ext
                    THEN iter_cost(in.fam, in.p) * niter
                    ELSE series_cost(niter, in.p, iter_cost(in.fam, in.p)))
                 + reduction_cost(in.fam, r, in.p)
    IN  [m_eff |-> m_eff, niter |-> niter, cost2 |-> cost2]

\* Precisions (whole words), negative exponents and callers of the optimizer.
OptPrecisions == {WORD_BIT_SIZE, 2 * WORD_BIT_SIZE, 3 * WORD_BIT_SIZE,
                  64 * WORD_BIT_SIZE}

OptExps == {-3, 0, 2, 5, 10, 40}

\* tan.rs:117-123 and cos.rs:140-141
OptCallers ==
    {[fam |-> "tan", pwr_step |-> 1, ext |-> TRUE],
     [fam |-> "cos", pwr_step |-> 2, ext |-> FALSE]}

\* What a step of the optimizer leaves alone.
OptFrame == UNCHANGED <<tanVars, cosVars, serVars, redVars, tsVars>>

OptInit ==
    /\ opt_pc = "start"
    /\ \E pp \in OptPrecisions, m \in OptExps, c \in OptCallers :
          opt_in = [p |-> pp, m |-> m, fam |-> c.fam,
                    pwr_step |-> c.pwr_step, ext |-> c.ext]
    /\ opt_loc = NoVal
    /\ opt_accepted = <<>>
    /\ opt_result = NoVal
    /\ TanIdle
    /\ CosIdle
    /\ SeriesIdle
    /\ ReduceIdle
    /\ TrigSeriesIdle

\* series.rs:58-66
OptStart ==
    /\ opt_pc = "start"
    /\ opt_loc' = [reduction_num_step |-> ReductionNumStep(opt_in.p),
                   reduction_times |-> InitialReductionTimes(opt_in.p,
                                                             opt_in.m),
                   cost1 |-> U64_MAX, m_eff |-> 0, niter |-> 0, cost2 |-> 0]
    /\ opt_pc' = "eval"
    /\ UNCHANGED <<opt_in, opt_accepted, opt_result>>
    /\ OptFrame

\* series.rs:69-75
OptEval ==
    /\ opt_pc = "eval"
    /\ LET ev == OptEvaluate(opt_in, opt_loc.reduction_times)
       IN  opt_loc' = [opt_loc EXCEPT !.m_eff = ev.m_eff, !.niter = ev.niter,
                                      !.cost2 = ev.cost2]
    /\ opt_pc' = "compare"
    /\ UNCHANGED <<opt_in, opt_accepted, opt_result>>
    /\ OptFrame

\* series.rs:77-79: the configuration is cheaper and is accepted.
OptAccept ==
    /\ opt_pc = "compare"
    /\ opt_loc.cost2 < opt_loc.cost1
    /\ opt_accepted' = Append(opt_accepted,
                              [reduction_times |-> opt_loc.reduction_times,
                               niter |-> opt_loc.niter,
                               m_eff |-> opt_loc.m_eff,
                               cost |-> opt_loc.cost2])
    /\ opt_loc' = [opt_loc EXCEPT
                     !.cost1 = opt_loc.cost2,
                     !.reduction_times = @ + opt_loc.reduction_num_step]
    /\ opt_pc' = "eval"
    /\ UNCHANGED <<opt_in, opt_result>>
    /\ OptFrame

\* series.rs:80-82: the configuration is not cheaper; the function returns.
OptReturn ==
    /\ opt_pc = "compare"
    /\ ~(opt_loc.cost2 < opt_loc.cost1)
    /\ opt_result' = [reduction_times |-> OptReturnedTimes(opt_loc),
                      niter |-> opt_loc.niter,
                      m_eff |-> opt_loc.m_eff]
    /\ opt_pc' = "done"
    /\ UNCHANGED <<opt_in, opt_loc, opt_accepted>>
    /\ OptFrame

OptNext ==
    \/ OptStart
    \/ OptEval
    \/ OptAccept
    \/ OptReturn

SpecOpt == OptInit /\ [][OptNext]_vars

\* series_cost_optimize is a sequential loop: its next step is always taken.
FairSpecOpt == SpecOpt /\ WF_vars(OptNext)

----------------------------------------------------------------------------
\* Argument reduction of the tangent, tan_arg_reduce (tan.rs:206-219), on
\* numbers [s, m, e, p, inexact] whose exponent cannot go below EXPONENT_MIN:
\* at EXPONENT_MIN a value is halved by shifting its mantissa (a subnormal).

\* Precision of the numbers handed to tan_arg_reduce in this model.
ReducePrec == 4

\* set_exponent(e)
set_exponent(a, ee) == [a EXCEPT !.e = ee]

\* a.div(&TWO, p, RoundingMode::FromZero)
DivTwoFromZero(a) ==
    IF a.m = 0 THEN a
    ELSE IF a.e - 1 >= EXPONENT_MIN THEN [a EXCEPT !.e = @ - 1]
    ELSE [a EXCEPT !.m = (@ + 1) \div 2,
                   !.inexact = @ \/ (a.m % 2 = 1)]

\* Variant of ReduceLoopLength that counts from the exponent the argument had
\* before it was pinned.
ReduceLoopLength_before(old, pinned, n) == n - (old.e - EXPONENT_MIN)

\* tan.rs:212, the length of the division loop.  The exponent is read from
\* ret after ret.set_exponent(EXPONENT_MIN) (tan.rs:211).
ReduceLoopLength(old, pinned, n) == n - (pinned.e - EXPONENT_MIN)

\* Arguments: normal numbers near the smallest exponent and far from it, and
\* subnormals.
ReduceArgs ==
    [s : {1, -1}, m : 2^(ReducePrec - 1)..(2^ReducePrec - 1),
     e : {EXPONENT_MIN, EXPONENT_MIN + 1, EXPONENT_MIN + 2, EXPONENT_MIN + 3,
          -1, 0},
     p : {ReducePrec}, inexact : {FALSE}]
    \cup [s : {1, -1}, m : {3, 6}, e : {EXPONENT_MIN}, p : {ReducePrec},
          inexact : {FALSE}]

\* Reduction counts.
ReduceCounts == {1, 2, 3}

\* What a step of tan_arg_reduce leaves alone.
ReduceFrame == UNCHANGED <<tanVars, cosVars, serVars, optVars, tsVars>>

ReduceInit ==
    /\ red_pc = "start"
    /\ red_in \in [self : ReduceArgs, n : ReduceCounts]
    /\ red_ret = NoVal
    /\ red_loop = NoVal
    /\ red_result = NoResult
    /\ TanIdle
    /\ CosIdle
    /\ SeriesIdle
    /\ OptIdle
    /\ TrigSeriesIdle

\* An error returned by the ? operator.
ReduceFail ==
    /\ red_pc' = "done"
    /\ \E err \in Errors : red_result' = ErrResult(err)

\* tan.rs:208-216: the clone and the branch on the exponent.
ReduceStart ==
    /\ red_pc = "start"
    /\ \/ LET r0 == red_in.self
              n  == red_in.n
          IN  IF r0.e < EXPONENT_MIN + n
                THEN LET pinned == set_exponent(r0, EXPONENT_MIN)
                     IN  /\ red_ret' = pinned
                         /\ red_loop' =
                              [count |-> ReduceLoopLength(r0, pinned, n),
                               i |-> 0]
                         /\ red_pc' = "div"
                         /\ UNCHANGED red_result
                ELSE /\ red_ret' = set_exponent(r0, r0.e - n)
                     /\ red_pc' = "return"
                     /\ UNCHANGED <<red_loop, red_result>>
       \/ /\ ReduceFail
          /\ UNCHANGED <<red_ret, red_loop>>
    /\ UNCHANGED red_in
    /\ ReduceFrame

\* tan.rs:212-214: one pass of the division loop.
ReduceDiv ==
    /\ red_pc = "div"
    /\ red_loop.i < red_loop.count
    /\ \/ /\ red_ret' = DivTwoFromZero(red_ret)
          /\ red_loop' = [red_loop EXCEPT !.i = @ + 1]
          /\ UNCHANGED <<red_pc, red_result>>
       \/ /\ ReduceFail
          /\ UNCHANGED <<red_ret, red_loop>>
    /\ UNCHANGED red_in
    /\ ReduceFrame

\* tan.rs:218: Ok(ret)
ReduceReturn ==
    /\ \/ red_pc = "return"
       \/ red_pc = "div" /\ ~(red_loop.i < red_loop.count)
    /\ red_result' = OkResult(red_ret)
    /\ red_pc' = "done"
    /\ UNCHANGED <<red_in, red_ret, red_loop>>
    /\ ReduceFrame

ReduceNext ==
    \/ ReduceStart
    \/ ReduceDiv
    \/ ReduceReturn

SpecReduce == ReduceInit /\ [][ReduceNext]_vars

----------------------------------------------------------------------------
\* The series functions of the drivers: cos_series (cos.rs:135-162) and
\* tan_series (tan.rs:113-144), with the reduce and restore helpers they
\* call.  The value that travels through them is a record
\*   [stage, p, reduced, restored]
\* stage says whether it is still the argument or already the result, p is
\* its precision, reduced counts the reduction steps applied to the argument
\* (divisions by three for cos, halvings for tan) and restored counts the
\* applications of the restore identity to the result.

\* Reduction plans: what series_cost_optimize can return to the caller.
PlanTimes == {0, 1, 2, 5}

Plans == [reduction_times : PlanTimes, niter : {3, 20}, m_eff : {3, 40}]

\* Arguments of cos_series and tan_series.  Their exponents are far above
\* EXPONENT_MIN: the drivers have returned on smaller ones before.
TrigSeriesArgs == [p : {WORD_BIT_SIZE, 2 * WORD_BIT_SIZE}, e : {-2, 0}]

\* cos.rs:143 and tan.rs:125-127: the precision of the argument
TrigArgPrecision(fn, pp, plan) ==
    IF fn = "cos"
      THEN pp + (-COS_EXP_THRES) + plan.niter * 4 + plan.reduction_times * 3
      ELSE LET add_prec == plan.reduction_times * 4 + 9 - plan.m_eff
           IN  pp + (IF add_prec > 0 THEN add_prec ELSE 0)

\* cos.rs:169: the passes of the loop of cos_arg_reduce(n)
ReducePasses(n) == n

\* Variant of RestorePasses that leaves the last restore out.
RestorePasses_short(n) == n - 1

\* cos.rs:181 and tan.rs:228: the passes of the loop of cos_arg_restore(n)
\* and of tan_arg_restore(n)
RestorePasses(n) == n

\* What a step of cos_series or tan_series leaves alone.
TrigSeriesFrame == UNCHANGED <<tanVars, cosVars, serVars, optVars, redVars>>

TrigSeriesInit ==
    /\ ts_pc = "optimize"
    /\ ts_fn \in {"cos", "tan"}
    /\ ts_self \in TrigSeriesArgs
    /\ ts_plan = NoVal
    /\ ts_val = NoVal
    /\ ts_left = 0
    /\ ts_ops = <<>>
    /\ ts_result = NoResult
    /\ TanIdle
    /\ CosIdle
    /\ SeriesIdle
    /\ OptIdle
    /\ ReduceIdle

\* An error returned by operation op with argument n through the ? operator.
TsFail(op, n) ==
    /\ ts_pc' = "done"
    /\ \E err \in Errors : ts_result' = ErrResult(err)
    /\ ts_ops' = Append(ts_ops, [op |-> op, n |-> n, ok |-> FALSE])

\* Operation op with argument n has succeeded.
TsDone(op, n) ==
    /\ ts_ops' = Append(ts_ops, [op |-> op, n |-> n, ok |-> TRUE])
    /\ UNCHANGED ts_result

\* cos.rs:138-141, tan.rs:114-123: the generator is created and the optimizer
\* returns its plan.
TsOptimize ==
    /\ ts_pc = "optimize"
    /\ \/ /\ \E plan \in Plans : ts_plan' = plan
          /\ ts_pc' = "set_precision"
          /\ TsDone("series_cost_optimize", 0)
       \/ /\ TsFail("PolycoeffGen::new", 0)
          /\ UNCHANGED ts_plan
    /\ UNCHANGED <<ts_fn, ts_self, ts_val, ts_left>>
    /\ TrigSeriesFrame

\* cos.rs:143-149, tan.rs:125-135: self.set_precision(..)?, and the branch on
\* reduction_times.
TsSetPrecision ==
    /\ ts_pc = "set_precision"
    /\ LET pa == TrigArgPrecision(ts_fn, ts_self.p, ts_plan)
       IN  \/ /\ ts_val' = [stage |-> "arg", p |-> pa, reduced |-> 0,
                            restored |-> 0]
              /\ ts_pc' = IF ts_plan.reduction_times > 0
                            THEN "reduce" ELSE "series"
              /\ TsDone("set_precision", pa)
           \/ /\ TsFail("set_precision", pa)
              /\ UNCHANGED ts_val
    /\ UNCHANGED <<ts_fn, ts_self, ts_plan, ts_left>>
    /\ TrigSeriesFrame

\* cos.rs:146 with 168, tan.rs:131 with 206-219: the reduce helper is called
\* with reduction_times.  cos_arg_reduce clones and enters its loop;
\* tan_arg_reduce lowers the exponent by n, which halves the argument n times.
TsReduce ==
    /\ ts_pc = "reduce"
    /\ LET n == ts_plan.reduction_times
       IN  \/ /\ IF ts_fn = "cos"
                   THEN /\ ts_left' = ReducePasses(n)
                        /\ ts_pc' = "reduce_loop"
                        /\ UNCHANGED ts_val
                   ELSE /\ ts_val' = [ts_val EXCEPT !.reduced = @ + n]
                        /\ ts_pc' = "series"
                        /\ UNCHANGED ts_left
              /\ TsDone("arg_reduce", n)
           \/ /\ TsFail("arg_reduce", n)
              /\ UNCHANGED <<ts_val, ts_left>>
    /\ UNCHANGED <<ts_fn, ts_self, ts_plan>>
    /\ TrigSeriesFrame

\* cos.rs:169-172: one pass of the loop of cos_arg_reduce, ret.div(&THREE)?,
\* or its end.
TsReduceLoop ==
    /\ ts_pc = "reduce_loop"
    /\ IF ts_left > 0
         THEN \/ /\ ts_val' = [ts_val EXCEPT !.reduced = @ + 1]
                 /\ ts_left' = ts_left - 1
                 /\ UNCHANGED <<ts_pc, ts_result, ts_ops>>
              \/ /\ TsFail("div", 3)
                 /\ UNCHANGED <<ts_val, ts_left>>
         ELSE /\ ts_pc' = "series"
              /\ UNCHANGED <<ts_val, ts_left, ts_result, ts_ops>>
    /\ UNCHANGED <<ts_fn, ts_self, ts_plan>>
    /\ TrigSeriesFrame

\* cos.rs:151-157, tan.rs:137-139: the series is evaluated on the argument,
\* and the branch on reduction_times.
TsSeries ==
    /\ ts_pc = "series"
    /\ \/ /\ ts_val' = [ts_val EXCEPT !.stage = "ret"]
          /\ ts_pc' = IF ts_plan.reduction_times > 0
                        THEN "restore" ELSE "return"
          /\ TsDone("series", 0)
       \/ /\ TsFail("series", 0)
          /\ UNCHANGED ts_val
    /\ UNCHANGED <<ts_fn, ts_self, ts_plan, ts_left>>
    /\ TrigSeriesFrame

\* cos.rs:158 with 179, tan.rs:140 with 225-226: the restore helper is called
\* with reduction_times and clones its argument.
TsRestore ==
    /\ ts_pc = "restore"
    /\ LET n == ts_plan.reduction_times
       IN  \/ /\ ts_left' = RestorePasses(n)
              /\ ts_pc' = "restore_loop"
              /\ TsDone("arg_restore", n)
           \/ /\ TsFail("arg_restore", n)
              /\ UNCHANGED ts_left
    /\ UNCHANGED <<ts_fn, ts_self, ts_plan, ts_val>>
    /\ TrigSeriesFrame

\* cos.rs:181-187, tan.rs:228-233: one pass of the restore loop (the
\* triple-angle identity for cos, the double-angle identity for tan), or its
\* end.
TsRestoreLoop ==
    /\ ts_pc = "restore_loop"
    /\ IF ts_left > 0
         THEN \/ /\ ts_val' = [ts_val EXCEPT !.restored = @ + 1]
                 /\ ts_left' = ts_left - 1
                 /\ UNCHANGED <<ts_pc, ts_result, ts_ops>>
              \/ /\ TsFail("restore identity", ts_left)
                 /\ UNCHANGED <<ts_val, ts_left>>
         ELSE /\ ts_pc' = "return"
              /\ UNCHANGED <<ts_val, ts_left, ts_result, ts_ops>>
    /\ UNCHANGED <<ts_fn, ts_self, ts_plan>>
    /\ TrigSeriesFrame

\* cos.rs:158-160, tan.rs:140-142: the value is returned.
TsReturn ==
    /\ ts_pc = "return"
    /\ ts_result' = OkResult(ts_val)
    /\ ts_pc' = "done"
    /\ UNCHANGED <<ts_fn, ts_self, ts_plan, ts_val, ts_left, ts_ops>>
    /\ TrigSeriesFrame

TrigSeriesNext ==
    \/ TsOptimize
    \/ TsSetPrecision
    \/ TsReduce
    \/ TsReduceLoop
    \/ TsSeries
    \/ TsRestore
    \/ TsRestoreLoop
    \/ TsReturn

SpecTrigSeries == TrigSeriesInit /\ [][TrigSeriesNext]_vars

----------------------------------------------------------------------------
\* Properties of series_cost_optimize.

\* C11: series_cost_optimize returns the previous (best) configuration as one
\* consistent triple: the effective exponent returned is
\* reduction_effect(r, m) and the iteration estimate returned is
\* series_niter(p, reduction_effect(r, m)) / pwr_step, for the returned
\* reduction_times r.
C11_ConsistentTriple ==
    opt_pc = "done" =>
        LET r  == opt_result.reduction_times
            me == reduction_effect(opt_in.fam, r, opt_in.m)
        IN  /\ opt_result.m_eff = me
            /\ opt_result.niter = series_niter(opt_in.p, me) \div opt_in.pwr_step

\* The modelled total cost (series cost plus reduction cost) of r reductions.
TotalCost(in, r) == OptEvaluate(in, r).cost2

\* No increase of r by up to one search step lowers the total cost.
NoGain(in, r) ==
    \A d \in 1..ReductionNumStep(in.p) : TotalCost(in, r + d) >= TotalCost(in, r)

\* C12 (as claimed): the reduction_times returned by series_cost_optimize is
\* the smallest reduction count at which increasing it further would not
\* strictly lower the modelled total cost.  Counts below the one the search
\* starts from are left out of the comparison.
C12_SmallestCount ==
    opt_pc = "done" =>
        LET r  == opt_result.reduction_times
            r0 == Max(ReductionNumStep(opt_in.p) - opt_in.m, 0)
        IN  /\ NoGain(opt_in, r)
            /\ \A q \in r0..(r - 1) : ~NoGain(opt_in, q)

\* C12 (amended): the reduction_times returned by series_cost_optimize is the
\* first member r of the progression r0, r0 + s, r0 + 2s, ... (r0 =
\* max(s - m, 0), s = floor(log2 p) / 2) whose successor r + s does not have a
\* strictly lower modelled total cost; every earlier member has a strictly
\* cheaper successor.
C12_FirstOnProgression ==
    opt_pc = "done" =>
        LET r  == opt_result.reduction_times
            st == (BitLen(opt_in.p) - 1) \div 2
            r0 == Max(st - opt_in.m, 0)
            k  == (r - r0) \div st
        IN  /\ r >= r0
            /\ r = r0 + k * st
            /\ TotalCost(opt_in, r + st) >= TotalCost(opt_in, r)
            /\ \A j \in 0..(k - 1) :
                  TotalCost(opt_in, r0 + (j + 1) * st)
                     < TotalCost(opt_in, r0 + j * st)

\* C12 witness: the search started above zero, accepted several
\* configurations and returned a count although a smaller one already gains
\* nothing from a further increase.
C12_Witness ==
    /\ opt_pc = "done"
    /\ Len(opt_accepted) >= 3
    /\ opt_accepted[1].reduction_times > 0
    /\ \E q \in opt_accepted[1].reduction_times
                  ..(opt_result.reduction_times - 1) : NoGain(opt_in, q)

----------------------------------------------------------------------------
\* Properties of the strategies of the series evaluator.

\* C13: series_linear stops exactly at the first term whose exponent is at or
\* below exponent(acc) - precision(acc), acc taken after that term was added.
\* Every pass of its loop pulls one coefficient and adds one term; a pass
\* whose term fails the test advances the running power by x_step and goes
\* on, a pass whose term passes the test returns the accumulator and nothing
\* else.
C13_LinearStopsAtFirstNegligible ==
    [][(ser_pc = "linear" /\ ser_pc' # "done") =>
          LET part == Term(ser_loc.x_pow, ser_gen'.fct, ser_gen.is_div,
                           ser_loc.p)
              acc  == FAdd(ser_loc.acc, part, ser_loc.p)
          IN  /\ ser_gen'.n = ser_gen.n + 1
              /\ ser_iters' = ser_iters + 1
              /\ IF part.e <= acc.e - acc.p
                   THEN /\ ser_pc' = "set_inexact"
                        /\ ser_loc' = [ret |-> acc]
                   ELSE /\ ser_pc' = "linear"
                        /\ ser_loc'.acc = acc
                        /\ ser_loc'.x_pow = FMul(ser_loc.x_pow, ser_loc.x_step,
                                                 ser_loc.p)
                        /\ ser_loc'.x_step = ser_loc.x_step]_vars

\* C13 witness: series_linear has returned after several terms, one
\* coefficient pulled for each.
C13_Witness ==
    /\ ser_pc = "set_inexact"
    /\ ser_strategy = <<"linear">>
    /\ ser_iters >= 3
    /\ ser_gen.n = ser_iters

\* The precision-sufficiency condition of series_horner for a cache of n
\* coefficients, the last of which is c (series.rs:323-329).
HornerSufficient(loc, n, c) ==
    (-loc.x_first.e) - (n + 1) * loc.x_step.e + (IF n = 0 THEN 0 ELSE -c.e)
        >= loc.p - loc.add.e

\* The cache of series_horner is minimal: no shorter prefix of it satisfies
\* the sufficiency condition, and x_p and coef_p are those of its length.
HornerMinimal ==
    ser_pc = "horner" =>
        LET n == Len(ser_loc.cache)
        IN  /\ \A k \in 0..(n - 1) :
                  ~HornerSufficient(ser_loc, k,
                                    IF k = 0 THEN NoVal ELSE ser_loc.cache[k])
            /\ ser_loc.x_p = (-ser_loc.x_first.e) - (n + 1) * ser_loc.x_step.e
            /\ ser_loc.coef_p = IF n = 0 THEN 0 ELSE -ser_loc.cache[n].e

\* series_horner was called by series_run and has returned a value.
HornerReturned ==
    /\ ser_strategy = <<"horner">>
    /\ ser_pc \in {"set_inexact", "done"}
    /\ ser_pc = "done" => ser_result.ok

\* C14 (as claimed): series_horner caches the minimal number n of
\* coefficients that satisfies its sufficiency condition, the polynomial it
\* folds consists of exactly those n coefficients, and exactly n coefficients
\* are pulled from the generator.
C14_HornerPullsCached ==
    /\ HornerMinimal
    /\ HornerReturned => ser_gen.n = ser_iters

\* C14 (amended): series_horner caches the minimal number n of coefficients
\* that satisfies its sufficiency condition (the caching pass stops at the
\* first n with x_p + coef_p >= p - exponent(add)); it then pulls one more
\* coefficient to seed the fold, so the polynomial folded has n + 1
\* coefficients and n + 1 coefficients are pulled from the generator.
C14_HornerSeedsWithOneMore ==
    /\ []HornerMinimal
    /\ [](HornerReturned => ser_gen.n = ser_iters + 1)
    /\ [][(ser_pc = "horner" /\ ser_pc' # "done") =>
            LET n    == Len(ser_loc.cache)
                c    == ser_gen'.fct
                go   == ser_loc.x_p + ser_loc.coef_p < ser_loc.p - ser_loc.add.e
                poly == HornerFold(ser_loc.p, ser_loc.cache, n, c,
                                   ser_loc.x_step)
            IN  /\ ser_gen'.n = ser_gen.n + 1
                /\ go = ~HornerSufficient(ser_loc, n,
                                          IF n = 0 THEN NoVal
                                                   ELSE ser_loc.cache[n])
                /\ IF go
                     THEN /\ ser_pc' = "horner"
                          /\ ser_loc'.cache = Append(ser_loc.cache, c)
                     ELSE /\ ser_pc' = "set_inexact"
                          /\ ser_loc' =
                               [ret |-> FAdd(ser_loc.add,
                                             FMul(poly, ser_loc.x_first,
                                                  ser_loc.p),
                                             ser_loc.p)]]_vars

\* C14 witness: series_horner has returned after caching several
\* coefficients and pulling the seed of the fold.
C14_Witness ==
    /\ HornerReturned
    /\ ser_iters >= 2
    /\ ser_gen.n = ser_iters + 1

\* C15: for the same accumulator, first power, step factor and an identical
\* fresh coefficient generator, series_rectangular (with iteration estimates
\* on both sides of the 128-entry cache limit) and series_linear return
\* bit-identical results at the same working precision.
C15_RectangularEqualsLinear ==
    (ser_pc = "set_inexact" /\ ser_ref # NoVal) =>
        SameNumber(ser_ref, ser_loc.ret)

\* C16: if reserving the power cache of series_rectangular fails, the call
\* returns the allocation error, no coefficient has been pulled from the
\* generator, no term has been accumulated, and the arguments and the
\* generator are as they were at entry.
C16_ReserveFailsClean ==
    [][ser_pc = "rectangular" =>
          /\ ser_gen' = ser_gen
          /\ ser_in' = ser_in
          /\ ser_iters' = ser_iters
          /\ ser_pc' \in {"rect_cache", "done"}
          /\ ser_pc' = "done" => ser_result' = ErrResult("MemoryAllocation")
          /\ ser_strategy = <<"rectangular">> =>
                ser_gen.n = 0 /\ ser_iters = 0]_vars

\* C16 witness: series_rectangular has returned the allocation error with an
\* untouched generator.
C16_Witness ==
    /\ ser_pc = "done"
    /\ ser_strategy = <<"rectangular">>
    /\ ser_result = ErrResult("MemoryAllocation")
    /\ ser_gen.n = 0
    /\ ser_gen \in SeriesGens
    /\ ser_iters = 0

----------------------------------------------------------------------------
\* Properties of tan_arg_reduce.

\* r is a / 2^n, rounded away from zero where bits fall off the mantissa.
DividedByTwoPow(a, r, n) ==
    LET d == a.e - r.e - n
    IN  /\ r.s = a.s
        /\ r.p = a.p
        /\ IF d >= 0
             THEN r.m = a.m * 2^d
             ELSE (r.m - 1) * 2^(-d) < a.m /\ a.m <= r.m * 2^(-d)

\* C17: tan_arg_reduce(n) returns the argument divided by exactly 2^n in both
\* of its branches: by subtracting n from the exponent when the exponent
\* stays at or above EXPONENT_MIN, and, in the underflow fallback, by pinning
\* the exponent at EXPONENT_MIN and dividing by two only for the halvings the
\* exponent shift has not covered, n - (old exponent - EXPONENT_MIN) of them.
C17_ReduceHalvesNTimes ==
    (red_pc = "done" /\ red_result.ok) =>
        /\ DividedByTwoPow(red_in.self, red_result.val, red_in.n)
        /\ red_in.self.e >= EXPONENT_MIN + red_in.n =>
              /\ red_loop = NoVal
              /\ red_result.val.e = red_in.self.e - red_in.n
        /\ red_in.self.e < EXPONENT_MIN + red_in.n =>
              /\ red_result.val.e = EXPONENT_MIN
              /\ red_loop.i = red_in.n - (red_in.self.e - EXPONENT_MIN)

----------------------------------------------------------------------------
\* Properties of cos_series and tan_series.

\* The successful calls of helper op recorded so far.
TsCalls(op) == SelectSeq(ts_ops, LAMBDA o : o.op = op /\ o.ok)

----------------------------------------------------------------------------
\* Properties of the near-singularity branch of cos.

\* C19: in cos, when the raw series result has an exponent below -32 the
\* precision of the argument is widened by the magnitude of that exponent and
\* the series is evaluated once more, on the reduced argument and not on the
\* first result; when the exponent is not below -32 there is no second
\* evaluation; a call evaluates the series at most twice.
C19_WidenAndRerunOnce ==
    [][/\ cos_nseries' <= 2
       /\ (cos_pc = "cos_series" /\ cos_pc' # "done") =>
             /\ cos_nseries' = 1
             /\ cos_pc' = IF cos_ret'.exp < COS_EXP_THRES
                            THEN "widen" ELSE "set_precision"
       /\ (cos_pc = "widen" /\ cos_pc' # "done") =>
             /\ cos_pc' = "cos_series_again"
             /\ cos_ret.exp < COS_EXP_THRES
             /\ cos_arg' = [cos_arg EXCEPT !.mbl = @ + (-cos_ret.exp)]
             /\ cos_ret' = cos_ret
       /\ (cos_pc = "cos_series_again" /\ cos_pc' # "done") =>
             /\ cos_nseries = 1 /\ cos_nseries' = 2
             /\ cos_arg.num = "x mod pi"
             /\ cos_arg.mbl = cos_self.mbl + (-cos_ret.exp)
             /\ cos_ret'.mbl = cos_arg.mbl
             /\ cos_pc' = "set_precision"
       /\ (cos_pc = "set_precision" /\ cos_nseries = 1) =>
             cos_ret.exp >= COS_EXP_THRES
      ]_vars

\* C19 witness: a call of cos has returned a value after a second evaluation
\* of the series.
C19_Witness ==
    /\ cos_pc = "done"
    /\ cos_result.ok
    /\ cos_nseries = 2

----------------------------------------------------------------------------
\* Properties of the cosine coefficient generator.

RECURSIVE Factorial(_)
Factorial(n) == IF n <= 1 THEN 1 ELSE n * Factorial(n - 1)

RECURSIVE TwoTo(_)
TwoTo(n) == IF n <= 0 THEN 1 ELSE 2 * TwoTo(n - 1)

\* The number f is 1 / (2k)! in absolute value, up to the truncation of the
\* 4k operations that produced it: with |f| = m * 2^(e - p), the difference
\* 2^(p - e) - m * (2k)! is between 0 and 4k units of the last place.
IsInverseFactorial(f, k) ==
    LET d == TwoTo(f.p - f.e) - f.m * Factorial(2 * k)
    IN  /\ f.e <= 0
        /\ 0 <= d
        /\ d <= 4 * k * TwoTo(1 - f.e)

\* C20: after k pulls (k >= 1) the cosine generator has inc = 2k and
\* sign = (-1)^k, the sign of fct is the sign field, fct is the coefficient
\* (-1)^k / (2k)!, and the generator is not divisor-based.  The value of fct
\* is compared for k <= 4, where (2k)! times a mantissa is a small integer.
C20_CosCoefficients ==
    (ser_pc # "idle" /\ ser_gen.kind = "cos") =>
        LET k == ser_gen.n
        IN  /\ ~ser_gen.is_div
            /\ ser_gen.inc = 2 * k
            /\ ser_gen.sign = (IF k % 2 = 0 THEN 1 ELSE -1)
            /\ k >= 1 => ser_gen.fct.s = ser_gen.sign
            /\ (k >= 1 /\ k <= 4) =>
                  IsInverseFactorial(ser_gen.fct, k)

\* C20 witness: the cosine generator has been pulled four times and holds
\* 1/8! up to truncation.
C20_Witness ==
    /\ ser_pc # "idle"
    /\ ser_gen.kind = "cos"
    /\ ser_gen.n = 4
    /\ ser_gen.sign = 1
    /\ ser_gen.fct.s = 1
    /\ ~FIsZero(ser_gen.fct)

----------------------------------------------------------------------------
\* Properties of the rectangular threshold.

\* series_cost(niter, ..) carries the additional terms of its rectangular
\* branch (series.rs:132-135).
CostHasRectTerms(niter) ==
    series_cost(niter, WORD_BIT_SIZE, 0) #
        niter * (calc_mul_cost(WORD_BIT_SIZE) + calc_add_cost(WORD_BIT_SIZE))

\* series_run has chosen a strategy for nonzero x_first and x_step.
ChosenNonzero ==
    /\ ser_strategy # <<>>
    /\ ~FIsZero(ser_in.x_first)
    /\ ~FIsZero(ser_in.x_step)

\* C21: series_run and series_cost switch to rectangular evaluation at 90% of
\* the cache limit, 115.2: an estimate of 115 or less never selects
\* rectangular evaluation, an estimate of 116 or more with nonzero x_first
\* and x_step always does.
C21_SwitchAbove115 ==
    /\ ser_strategy # <<>> =>
          (ser_strategy[1] = "rectangular" => ser_in.niter >= 116)
    /\ ChosenNonzero =>
          (ser_in.niter >= 116 => ser_strategy[1] = "rectangular")
    /\ ser_strategy # <<>> =>
          (CostHasRectTerms(ser_in.niter) <=> ser_in.niter >= 116)

\* C21, amended: the switch is at 108 = (128 / 10) * 9 in integer arithmetic:
\* an estimate of 107 or less never selects rectangular evaluation, an
\* estimate of 108 or more with nonzero x_first and x_step always does, and
\* series_cost has its rectangular terms from 108 on.
C21_SwitchAt108 ==
    /\ ser_strategy # <<>> =>
          (ser_strategy[1] = "rectangular" => ser_in.niter >= 108)
    /\ ChosenNonzero =>
          (ser_in.niter >= 108 => ser_strategy[1] = "rectangular")
    /\ ser_strategy # <<>> =>
          (CostHasRectTerms(ser_in.niter) <=> ser_in.niter >= 108)

\* C21 witness: an estimate of exactly 108 has selected rectangular
\* evaluation.
C21_Witness ==
    /\ ChosenNonzero
    /\ ser_in.niter = 108
    /\ ser_strategy[1] = "rectangular"

----------------------------------------------------------------------------
\* Properties of the cost compared by series_cost_optimize.

\* The configuration of the current pass has been evaluated.
OptEvaluated == opt_pc = "compare"

\* C22: the cost compared at each pass is the series cost plus the reduction
\* cost in both modes of ext: iter_cost * niter + reduction_cost when ext is
\* true, series_cost(niter, p, gen) + reduction_cost when ext is false.
C22_CostIncludesReduction ==
    OptEvaluated =>
        LET red == reduction_cost(opt_in.fam, opt_loc.reduction_times,
                                  opt_in.p)
            ic  == iter_cost(opt_in.fam, opt_in.p)
        IN  /\ opt_in.ext =>
                  opt_loc.cost2 = ic * opt_loc.niter + red
            /\ ~opt_in.ext =>
                  opt_loc.cost2 =
                      series_cost(opt_loc.niter, opt_in.p, ic) + red

\* C22 witness: a pass with ext true and a positive reduction cost has been
\* evaluated.
C22_Witness ==
    /\ OptEvaluated
    /\ opt_in.ext
    /\ opt_loc.niter > 0
    /\ reduction_cost(opt_in.fam, opt_loc.reduction_times, opt_in.p) > 0

----------------------------------------------------------------------------
\* Properties of the powers of series_rectangular.  With x_step = 1/2 every
\* power of x_step is exact, and the degree of a power can be read from its
\* value.

\* The number 1/2 at the precision of the evaluator.
Half == FNorm(1, 1, -1, SeriesPrec, FALSE)

\* Numbers a and b have the same value (both of precision pp).
SameValue(a, b) == a.s = b.s /\ a.m = b.m /\ a.e = b.e

\* v is base * (1/2)^j at precision pp.
IsHalfPower(v, base, j, pp) ==
    SameValue(v, FMul(base, FNorm(1, 1, -j, pp, FALSE), pp))

\* The number 1 at precision pp.
UnitAt(pp) == FromWord(1, pp)

\* series_rectangular is running on x_step = 1/2.
RectOnHalf ==
    /\ ser_strategy # <<>>
    /\ ser_strategy[1] = "rectangular"
    /\ SameValue(ser_in.x_step, Half)

\* C23: in series_rectangular the power of x_step that multiplies a
\* coefficient is the coefficient's pull index: the cache holds x_step^1 ..
\* x_step^cache_sz after the constant term of a row, a row pulls
\* cache_sz + 1 coefficients and the terminal power advances by
\* x_step^(cache_sz + 1), so the terminal power is x_step^j when j
\* coefficients were pulled, and the remainder evaluation starts at
\* x_first * x_step^j.
C23_PowerMatchesPullIndex ==
    RectOnHalf =>
        /\ ser_pc \in {"rect_loop", "rect_rest"} =>
              /\ Len(ser_loc.cache) = ser_loc.cache_sz
              /\ \A i \in 1..Len(ser_loc.cache) :
                    IsHalfPower(ser_loc.cache[i], UnitAt(ser_loc.p), i,
                                ser_loc.p)
              /\ IsHalfPower(ser_loc.x_pow, UnitAt(ser_loc.p),
                             ser_loc.cache_sz + 1, ser_loc.p)
              /\ ser_gen.n % (ser_loc.cache_sz + 1) = 0
              /\ IsHalfPower(ser_loc.terminal_pow, UnitAt(ser_loc.p),
                             ser_gen.n, ser_loc.p)
        /\ ser_pc = "linear" =>
              IsHalfPower(ser_loc.x_pow, ser_in.x_first, ser_gen.n, ser_loc.p)
        /\ (ser_pc = "horner" /\ ser_loc.cache = <<>>) =>
              IsHalfPower(ser_loc.x_first, ser_in.x_first, ser_gen.n,
                          ser_loc.p)

\* C23 witness: after at least three rows of more than ten coefficients each
\* the remainder has been handed to series_linear with a nonzero power.
C23_Witness ==
    /\ RectOnHalf
    /\ ser_pc = "linear"
    /\ ser_iters >= 3
    /\ ser_gen.n > 30
    /\ ~FIsZero(ser_loc.x_pow)

----------------------------------------------------------------------------
\* Properties of the row counter of series_rectangular.

\* C24: in series_rectangular called with niter >= 4 the counter of remaining
\* iterations never underflows; when the main loop has ended the remaining
\* count is below cache_sz <= 128; the remainder is finished by series_horner
\* exactly when the generator is not divisor-based and by series_linear
\* exactly when it is.
C24_CounterNeverUnderflows ==
    (ser_strategy # <<>> /\ ser_strategy[1] = "rectangular"
        /\ ser_in.niter >= 4) =>
        /\ ser_pc \notin {"panic", "rect_wrapped"}
        /\ ser_pc \in {"rect_loop", "rect_rest"} => ser_loc.niter >= 0
        /\ ser_pc = "rect_rest" =>
              /\ ser_loc.niter < ser_loc.cache_sz
              /\ ser_loc.cache_sz <= MAX_CACHE
        /\ (ser_pc = "horner" /\ ser_ref = NoVal) => ~ser_gen.is_div
        /\ (ser_pc = "linear" /\ ser_ref = NoVal) => ser_gen.is_div

----------------------------------------------------------------------------
\* Termination of series_cost_optimize.

\* The costs of the accepted configurations decrease strictly.
AcceptedDecreasing ==
    \A i \in 1..(Len(opt_accepted) - 1) :
        opt_accepted[i + 1].cost < opt_accepted[i].cost

\* max(floor(log2 p) / 2 - m, 0)
FirstCount(in) == Max((BitLen(in.p) - 1) \div 2 - in.m, 0)

\* The search has returned after accepting its first configuration, and the
\* count it returns is not below the first one.
ReturnedFromFirst ==
    opt_pc = "done" =>
        /\ Len(opt_accepted) >= 1
        /\ opt_accepted[1].reduction_times = FirstCount(opt_in)
        /\ opt_result.reduction_times >= FirstCount(opt_in)
        /\ opt_result.reduction_times >= 0

\* C25: series_cost_optimize terminates for every precision of at least one
\* word and every m: the accepted costs decrease strictly, the first
\* configuration max(floor(log2 p) / 2 - m, 0) is always accepted, the
\* returned reduction_times is at least that first value, and the final
\* subtraction of the step does not underflow.
C25_OptimizerTerminates ==
    /\ [](AcceptedDecreasing /\ ReturnedFromFirst)
    /\ <>(opt_pc = "done")

\* C25 witness: the search has returned after accepting several
\* configurations, starting from a positive count.
C25_Witness ==
    /\ opt_pc = "done"
    /\ Len(opt_accepted) >= 2
    /\ opt_accepted[1].reduction_times > 0
    /\ opt_result.reduction_times > opt_accepted[1].reduction_times

----------------------------------------------------------------------------
\* Properties of the pi-proximity branch of tan.

\* A step in which trig_arg_pi_proximity has returned t.
PiProximityReturns ==
    /\ pc = "pi_proximity"
    /\ last'.op = "trig_arg_pi_proximity"
    /\ last'.out = "ok"

\* C26: in an iteration of the loop of tan whose pi-proximity measure t
\* exceeds add_p the series is not evaluated and no rounding is attempted:
\* the iteration ends there, add_p becomes t, p_wrk and p_inc keep their
\* values; add_p never decreases during the call.
C26_ProximityRetryFrame ==
    /\ [][(PiProximityReturns /\ add_p < t') =>
            /\ pc' = "clone"
            /\ add_p' = t'
            /\ p_wrk' = p_wrk
            /\ p_inc' = p_inc
            /\ ret' = ret
            /\ fails' = fails
            /\ result' = result]_vars
    /\ [][(PiProximityReturns /\ ~(add_p < t')) =>
            /\ pc' = "tan_series"
            /\ add_p' = add_p]_vars
    /\ [][pc' \in {"tan_series", "try_set_precision"} =>
            \/ pc = "pi_proximity" /\ ~(add_p < t')
            \/ pc = "tan_series"]_vars
    /\ [][add_p' >= add_p]_vars

\* C26 witness: the measure has exceeded add_p for the second time in a
\* call, and the iteration has ended with the first working precision.
C26_Witness ==
    /\ pc = "clone"
    /\ last.op = "trig_arg_pi_proximity"
    /\ iter >= 2
    /\ t = MaxT
    /\ fails = 0
    /\ add_p = t
    /\ add_p > InitAddP
    /\ p_wrk = Max(p, self.mbl) + WORD_BIT_SIZE

====
